---------------------------- MODULE Spec2Model ----------------------------
(***************************************************************************)
(* A model of vstrip (tools/vstrip): the preprocessor that unwraps         *)
(* `verus! { ... }` blocks (preprocess.rs), the StripVisitor that removes  *)
(* specification-only nodes from the parsed file (visitor.rs) and the      *)
(* strip_source entry point that chains them (lib.rs).                     *)
(*                                                                         *)
(* Source text is a sequence of one-character strings.  Positions are the  *)
(* 0-based byte offsets of the Rust code; Byte(s, i) reads s at offset i.  *)
(***************************************************************************)
EXTENDS Integers, Sequences, FiniteSets, TLC

VARIABLES
    source,     \* the text handed to find_matching_brace / strip_source
    scan,       \* the locals of find_matching_brace, one loop iteration per step
    input,      \* the parsed File as the parser produced it (never changed)
    file,       \* the File the visitor mutates in place
    config,     \* the Config of the run
    output,     \* the results of the strip_source passes made so far
    phase,      \* where the run stands
    disk,       \* the file system: the content of each path, if it is a file
    stdout,     \* what has been printed on standard output
    stderr,     \* what has been printed on standard error
    run,        \* the orchestrator: its input path, the walk, counters and result
    build       \* how the call StripVisitor::new() of lib.rs is built

vars == <<source, scan, input, file, config, output, phase, disk, stdout, stderr, run, build>>
iovars == <<disk, stdout, stderr, run>>

(***************************************************************************)
(* Bounds of the model.                                                    *)
(***************************************************************************)
MaxScanLen == 4      \* length of the text after the opening brace
MaxItems == 3        \* items of a file, members of a trait or impl
MaxParams == 3       \* parameters of a function
MaxFields == 2       \* fields of a struct or enum variant
MaxStmts == 2        \* statements of a block
MaxSegments == 3     \* segments of a source text given to strip_source
MaxPasses == 2       \* times strip_source runs on its own output
MaxEntries == 2      \* entries of the directory given to process

(***************************************************************************)
(* Generic helpers.                                                        *)
(***************************************************************************)
Byte(s, i) == s[i + 1]

\* s[from..to) with 0-based offsets, as the Rust slice &source[from..to]
Slice(s, from, to) == SubSeq(s, from + 1, to)

RECURSIVE Concat(_)
Concat(ss) == IF ss = <<>> THEN <<>> ELSE Head(ss) \o Concat(Tail(ss))

\* all sequences over S of length at most n
SeqsUpTo(S, n) == UNION {[1..k -> S] : k \in 0..n}

\* xs is a subsequence of ys (elements of xs appear in ys in the same order)
RECURSIVE IsSubseq(_, _)
IsSubseq(xs, ys) ==
    IF xs = <<>> THEN TRUE
    ELSE IF ys = <<>> THEN FALSE
    ELSE IF Head(xs) = Head(ys) THEN IsSubseq(Tail(xs), Tail(ys))
    ELSE IsSubseq(xs, Tail(ys))

(***************************************************************************)
(* preprocess.rs: character classes (char::is_whitespace,                  *)
(* char::is_alphanumeric on the ASCII characters).  The ASCII characters   *)
(* with the White_Space property are the tab, the line feed, the vertical  *)
(* tab (U+000B, written as the character itself), the form feed, the       *)
(* carriage return and the space.                                          *)
(***************************************************************************)
Letters ==
    {"a", "b", "c", "d", "e", "f", "g", "h", "i", "j", "k", "l", "m",
     "n", "o", "p", "q", "r", "s", "t", "u", "v", "w", "x", "y", "z",
     "A", "B", "C", "D", "E", "F", "G", "H", "I", "J", "K", "L", "M",
     "N", "O", "P", "Q", "R", "S", "T", "U", "V", "W", "X", "Y", "Z"}
Digits == {"0", "1", "2", "3", "4", "5", "6", "7", "8", "9"}
Whitespace == {"\t", "\n", "", "\f", "\r", " "}

is_whitespace(ch) == ch \in Whitespace
is_alphanumeric(ch) == ch \in Letters \cup Digits

(***************************************************************************)
(* preprocess.rs: find_matching_brace.  ScanInit is the state of the       *)
(* locals before the loop; ScanStep is one iteration of `while i < len`.   *)
(* ret is what the function has to return: "some" after `return Some(i)`   *)
(* (i is then the returned offset), "none" before; when the loop ends with *)
(* i at the end of the text the function returns `None`.                   *)
(***************************************************************************)
ScanInit(start) ==
    [i |-> start, depth |-> 1, in_string |-> FALSE, in_char |-> FALSE,
     escape_next |-> FALSE, in_comment |-> FALSE, in_block_comment |-> FALSE,
     ret |-> "none"]

\* a variant of the loop body that looks at the double quote before the comments
ScanStep_QuoteFirst(src, st) ==
    LET len == Len(src)
        i == st.i
        ch == Byte(src, i)
        has_next == i + 1 < len
        next_ch == Byte(src, i + 1)
        adv(n) == [st EXCEPT !.i = i + n]
    IN  IF ~(i < len) THEN st
        ELSE IF st.escape_next THEN [st EXCEPT !.escape_next = FALSE, !.i = i + 1]
        ELSE IF ch = "\"" /\ ~st.in_char
            THEN [st EXCEPT !.in_string = ~st.in_string, !.i = i + 1]
        ELSE IF ~st.in_string /\ ~st.in_char /\ st.in_block_comment THEN
            IF has_next /\ ch = "*" /\ next_ch = "/"
            THEN [st EXCEPT !.in_block_comment = FALSE, !.i = i + 2]
            ELSE adv(1)
        ELSE IF ~st.in_string /\ ~st.in_char /\ st.in_comment THEN
            IF ch = "\n" THEN [st EXCEPT !.in_comment = FALSE, !.i = i + 1]
            ELSE adv(1)
        ELSE IF ~st.in_string /\ ~st.in_char /\ has_next /\ ch = "/" /\ next_ch = "/"
            THEN [st EXCEPT !.in_comment = TRUE, !.i = i + 2]
        ELSE IF ~st.in_string /\ ~st.in_char /\ has_next /\ ch = "/" /\ next_ch = "*"
            THEN [st EXCEPT !.in_block_comment = TRUE, !.i = i + 2]
        ELSE IF ch = "\\" THEN [st EXCEPT !.escape_next = TRUE, !.i = i + 1]
        ELSE IF ch = "'" /\ ~st.in_string THEN
            IF has_next /\ (is_alphanumeric(next_ch) \/ next_ch = "_")
            THEN adv(1)
            ELSE [st EXCEPT !.in_char = ~st.in_char, !.i = i + 1]
        ELSE IF ~st.in_string /\ ~st.in_char /\ ~st.in_comment /\ ~st.in_block_comment
            THEN IF ch = "{" THEN [st EXCEPT !.depth = st.depth + 1, !.i = i + 1]
                 ELSE IF ch = "}" THEN
                     IF st.depth - 1 = 0
                     THEN [st EXCEPT !.depth = 0, !.ret = "some"]
                     ELSE [st EXCEPT !.depth = st.depth - 1, !.i = i + 1]
                 ELSE adv(1)
        ELSE adv(1)

ScanStep(src, st) ==
    LET len == Len(src)
        i == st.i
        ch == Byte(src, i)
        has_next == i + 1 < len
        next_ch == Byte(src, i + 1)
        adv(n) == [st EXCEPT !.i = i + n]
    IN  IF ~(i < len) THEN st
        ELSE IF st.escape_next THEN [st EXCEPT !.escape_next = FALSE, !.i = i + 1]
        ELSE IF ~st.in_string /\ ~st.in_char /\ st.in_block_comment THEN
            IF has_next /\ ch = "*" /\ next_ch = "/"
            THEN [st EXCEPT !.in_block_comment = FALSE, !.i = i + 2]
            ELSE adv(1)
        ELSE IF ~st.in_string /\ ~st.in_char /\ st.in_comment THEN
            IF ch = "\n" THEN [st EXCEPT !.in_comment = FALSE, !.i = i + 1]
            ELSE adv(1)
        ELSE IF ~st.in_string /\ ~st.in_char /\ has_next /\ ch = "/" /\ next_ch = "/"
            THEN [st EXCEPT !.in_comment = TRUE, !.i = i + 2]
        ELSE IF ~st.in_string /\ ~st.in_char /\ has_next /\ ch = "/" /\ next_ch = "*"
            THEN [st EXCEPT !.in_block_comment = TRUE, !.i = i + 2]
        ELSE IF ch = "\\" THEN [st EXCEPT !.escape_next = TRUE, !.i = i + 1]
        ELSE IF ch = "\"" /\ ~st.in_char
            THEN [st EXCEPT !.in_string = ~st.in_string, !.i = i + 1]
        ELSE IF ch = "'" /\ ~st.in_string THEN
            IF has_next /\ (is_alphanumeric(next_ch) \/ next_ch = "_")
            THEN adv(1)
            ELSE [st EXCEPT !.in_char = ~st.in_char, !.i = i + 1]
        ELSE IF ~st.in_string /\ ~st.in_char /\ ~st.in_comment /\ ~st.in_block_comment
            THEN IF ch = "{" THEN [st EXCEPT !.depth = st.depth + 1, !.i = i + 1]
                 ELSE IF ch = "}" THEN
                     IF st.depth - 1 = 0
                     THEN [st EXCEPT !.depth = 0, !.ret = "some"]
                     ELSE [st EXCEPT !.depth = st.depth - 1, !.i = i + 1]
                 ELSE adv(1)
        ELSE adv(1)

RECURSIVE ScanRun(_, _)
\* the condition of `while i < bytes.len()`, no `return` having been taken
Scanning(src, st) == st.ret = "none" /\ st.i < Len(src)
ScanRun(src, st) == IF ~Scanning(src, st) THEN st ELSE ScanRun(src, ScanStep(src, st))

\* Option<usize>: the offset of the matching brace, or None (-1 here)
None == -1
find_matching_brace(src, start) ==
    LET fin == ScanRun(src, ScanInit(start))
    IN  IF fin.ret = "some" THEN fin.i ELSE None

(***************************************************************************)
(* error.rs: Result<T> = Result<T, StripError>.  A result is a record;     *)
(* err names the StripError variant.                                       *)
(***************************************************************************)
Ok(v) == [ok |-> TRUE, val |-> v, err |-> "-"]
Err(kind) == [ok |-> FALSE, val |-> <<>>, err |-> kind]

\* Error::source of StripError is Some for these variants
has_source(kind) == kind \in {"IoError", "WriteError", "ParseError"}

(***************************************************************************)
(* preprocess.rs: unwrap_verus_macros.  Marker is the text "verus!".       *)
(* UnwrapFrom(src, k, result) is the `while let Some((i, ch)) =            *)
(* chars.next()` loop with the iterator standing at offset k.              *)
(***************************************************************************)
Marker == <<"v", "e", "r", "u", "s", "!">>

starts_with(src, i, pat) ==
    /\ i + Len(pat) <= Len(src)
    /\ Slice(src, i, i + Len(pat)) = pat

\* the `while let Some(&(_, ch)) = chars.peek()` loop that skips whitespace
RECURSIVE SkipWhitespace(_, _)
SkipWhitespace(src, k) ==
    IF k < Len(src) /\ is_whitespace(Byte(src, k)) THEN SkipWhitespace(src, k + 1) ELSE k

RECURSIVE UnwrapFrom(_, _, _)
UnwrapFrom(src, k, result) ==
    IF ~(k < Len(src)) THEN Ok(result)
    ELSE LET i == k
             ch == Byte(src, k)
         IN  IF ch = "v" /\ starts_with(src, i, Marker) THEN
                 LET w == SkipWhitespace(src, i + 6)
                     \* `chars.next()` consumes the character at w, whatever it is
                     got == IF w < Len(src) THEN <<Byte(src, w)>> ELSE <<>>
                     after == IF w < Len(src) THEN w + 1 ELSE w
                 IN  IF got = <<"{">> THEN
                         LET brace_start == after
                             brace_end == find_matching_brace(src, brace_start)
                         IN  IF brace_end # None
                             THEN UnwrapFrom(src, brace_end + 1,
                                      result \o Slice(src, brace_start, brace_end) \o <<"\n">>)
                             ELSE Err("ConfigError")
                     ELSE UnwrapFrom(src, after, result \o Marker)
             ELSE UnwrapFrom(src, k + 1, Append(result, ch))

unwrap_verus_macros(src) == UnwrapFrom(src, 0, <<>>)

(***************************************************************************)
(* The syntax tree (verus_syn).  Option<T> is a sequence of length 0       *)
(* (None) or 1 (Some).                                                     *)
(*   FnArg       [tracked, kind ("Typed" | "Receiver"), ty, name]          *)
(*               ty is the last path segment of the type                   *)
(*   Field       [name, mode]            mode is a DataMode                *)
(*   Fields      [style ("Named" | "Unnamed" | "Unit"), list]              *)
(*   Stmt::Local [stmt |-> "Local", ghost, tracked, name, init]            *)
(*   Stmt::Expr  [stmt |-> "Expr", expr]                                   *)
(*   Stmt::Macro [stmt |-> "Macro", name]  name is the last path segment   *)
(*   Stmt::Item  [stmt |-> "Item", name]                                   *)
(*   Expr        [expr, op, name, args, blocks, clauses]                   *)
(*               blocks are the Blocks nested in the expression            *)
(*   fn          [item |-> "Fn", name, vis, attrs, mode, spec, inputs,     *)
(*                block]   (ItemFn, ImplItemFn, TraitItemFn)               *)
(*   ItemStruct  [item |-> "Struct", name, fields]                         *)
(*   ItemEnum    [item |-> "Enum", name, variants]                         *)
(*   ItemTrait   [item |-> "Trait", name, items]                           *)
(*   ItemImpl    [item |-> "Impl", name, items]                            *)
(*   other Item  [item |-> "Other", name]                                  *)
(*   File        a sequence of items                                       *)
(***************************************************************************)
Some(v) == <<v>>
NoneOpt == <<>>

\* SignatureSpec with no clause
EmptySpec ==
    [requires |-> NoneOpt, recommends |-> NoneOpt, ensures |-> NoneOpt,
     default_ensures |-> NoneOpt, returns |-> NoneOpt, decreases |-> NoneOpt,
     invariants |-> NoneOpt, unwind |-> NoneOpt]

\* SignatureSpec::erase_spec_fields: every clause becomes None
erase_spec_fields(spec) == EmptySpec

(***************************************************************************)
(* visitor.rs: the classification helpers.                                 *)
(***************************************************************************)
is_spec_or_proof_fn(mode) == mode \in {"Spec", "SpecChecked", "Proof", "ProofAxiom"}

is_ghost_or_tracked_type(ty) == ty = "Ghost" \/ ty = "Tracked"

is_ghost_or_tracked_arg(arg) ==
    IF arg.tracked THEN TRUE
    ELSE IF arg.kind = "Typed" THEN is_ghost_or_tracked_type(arg.ty)
    ELSE FALSE

\* a variant of is_ghost_or_tracked_field that forgets DataMode::Tracked
is_ghost_or_tracked_field_GhostOnly(field) == field.mode = "Ghost"

is_ghost_or_tracked_field(field) == field.mode \in {"Ghost", "Tracked"}

is_proof_expr(e) ==
    CASE e.expr = "Unary" -> e.op \in {"Proof", "Forall", "Exists", "Choose"}
      [] e.expr = "View" -> TRUE
      [] e.expr = "BigAnd" -> TRUE
      [] e.expr = "BigOr" -> TRUE
      [] e.expr = "Binary" -> e.op \in {"Imply", "Exply", "Equiv"}
      [] e.expr = "Assert" -> TRUE
      [] e.expr = "Assume" -> TRUE
      [] e.expr = "AssertForall" -> TRUE
      [] e.expr = "Macro" -> e.name \in {"assert", "assume", "proof", "calc"}
      [] OTHER -> FALSE

\* a variant of is_proof_macro that also takes the runtime assert
is_proof_macro_WithAssert(name) ==
    name \in {"proof", "calc", "assert_forall_by", "assert_by",
              "open_invariant", "open_local_invariant", "assert"}

is_proof_macro(name) ==
    name \in {"proof", "calc", "assert_forall_by", "assert_by",
              "open_invariant", "open_local_invariant"}

(***************************************************************************)
(* visitor.rs: spec_exprs_to_string and create_spec_comment_attrs.  An     *)
(* expression of a clause is its token text; an attribute is               *)
(* [doc |-> text], the #[doc = text] of the parse_quote.                   *)
(***************************************************************************)
RECURSIVE Join(_, _)
Join(strs, sep) ==
    IF strs = <<>> THEN ""
    ELSE IF Len(strs) = 1 THEN strs[1]
    ELSE strs[1] \o sep \o Join(Tail(strs), sep)

spec_exprs_to_string(exprs) == Join(exprs, ", ")

SpecComments(spec) ==
    (IF spec.requires # NoneOpt
        THEN <<"requires " \o spec_exprs_to_string(spec.requires[1].exprs)>> ELSE <<>>)
    \o (IF spec.recommends # NoneOpt
        THEN <<"recommends " \o spec_exprs_to_string(spec.recommends[1].exprs)
               \o (IF spec.recommends[1].via # NoneOpt
                   THEN " via " \o spec.recommends[1].via[1] ELSE "")>>
        ELSE <<>>)
    \o (IF spec.ensures # NoneOpt
        THEN <<"ensures " \o spec_exprs_to_string(spec.ensures[1].exprs)>> ELSE <<>>)
    \o (IF spec.default_ensures # NoneOpt
        THEN <<"default_ensures " \o spec_exprs_to_string(spec.default_ensures[1].exprs)>>
        ELSE <<>>)
    \o (IF spec.returns # NoneOpt
        THEN <<"returns " \o spec_exprs_to_string(spec.returns[1].exprs)>> ELSE <<>>)
    \o (IF spec.invariants # NoneOpt
        THEN LET set == spec.invariants[1].set
                 inv_str == CASE set.kind = "Any" -> "any"
                              [] set.kind = "None" -> "none"
                              [] set.kind = "List" -> "[" \o Join(set.exprs, ", ") \o "]"
                              [] set.kind = "Set" -> set.exprs[1]
             IN  <<"opens_invariants " \o inv_str>>
        ELSE <<>>)
    \o (IF spec.unwind # NoneOpt
        THEN <<"no_unwind" \o (IF spec.unwind[1].when # NoneOpt
                               THEN " when " \o spec.unwind[1].when[1] ELSE "")>>
        ELSE <<>>)

create_spec_comment_attrs(spec, is_pub) ==
    LET comments == SpecComments(spec)
        comment_prefix == IF is_pub THEN "///" ELSE "//"
        header == comment_prefix \o " ## Verus Annotations"
    IN  IF comments = <<>> THEN <<>>
        ELSE <<[doc |-> header]>>
             \o [k \in 1..Len(comments) |-> [doc |-> comment_prefix \o " " \o comments[k]]]

(***************************************************************************)
(* visitor.rs: impl VisitMut for StripVisitor.  cfg is the visitor's       *)
(* Config.  Each operator returns the node as the method leaves it.        *)
(***************************************************************************)
RECURSIVE visit_block_mut(_)
RECURSIVE visit_stmt_mut(_)
RECURSIVE visit_expr_mut(_)

\* the generated visit_expr_mut: walks into the blocks nested in the expression
visit_expr_mut(e) ==
    [e EXCEPT !.blocks = [k \in 1..Len(e.blocks) |-> visit_block_mut(e.blocks[k])]]

\* the generated visit_stmt_mut: walks into the statement's expressions
visit_stmt_mut(stmt) ==
    CASE stmt.stmt = "Local" ->
            [stmt EXCEPT !.init = [k \in 1..Len(stmt.init) |-> visit_expr_mut(stmt.init[k])]]
      [] stmt.stmt = "Expr" -> [stmt EXCEPT !.expr = visit_expr_mut(stmt.expr)]
      [] OTHER -> stmt

RetainStmt(stmt) ==
    CASE stmt.stmt = "Local" -> ~stmt.ghost /\ ~stmt.tracked
      [] stmt.stmt = "Expr" -> ~is_proof_expr(stmt.expr)
      [] stmt.stmt = "Macro" -> ~is_proof_macro(stmt.name)
      [] OTHER -> TRUE

visit_block_mut(block) ==
    LET visited == [k \in 1..Len(block) |-> visit_stmt_mut(block[k])]
    IN  SelectSeq(visited, RetainStmt)

FilterInputs(inputs) == SelectSeq(inputs, LAMBDA arg : ~is_ghost_or_tracked_arg(arg))

\* the body shared by visit_item_fn_mut, visit_impl_item_fn_mut and
\* visit_trait_item_fn_mut once the mode check has passed
StripFn(func, cfg, is_pub) ==
    [func EXCEPT
        !.attrs = IF cfg.spec_as_comments
                  THEN func.attrs \o create_spec_comment_attrs(func.spec, is_pub)
                  ELSE func.attrs,
        !.spec = erase_spec_fields(func.spec),
        !.mode = "Default",
        !.inputs = FilterInputs(func.inputs),
        !.block = [k \in 1..Len(func.block) |-> visit_block_mut(func.block[k])]]

visit_item_fn_mut(func, cfg) == StripFn(func, cfg, func.vis = "pub")

visit_impl_item_fn_mut(func, cfg) ==
    IF is_spec_or_proof_fn(func.mode) THEN func
    ELSE StripFn(func, cfg, func.vis = "pub")

visit_trait_item_fn_mut(func, cfg) ==
    IF is_spec_or_proof_fn(func.mode) THEN func
    ELSE StripFn(func, cfg, TRUE)

FilterFields(fields) ==
    IF fields.style \in {"Named", "Unnamed"}
    THEN [fields EXCEPT !.list = SelectSeq(fields.list,
                                     LAMBDA field : ~is_ghost_or_tracked_field(field))]
    ELSE fields

visit_item_struct_mut(item_struct) ==
    [item_struct EXCEPT !.fields = FilterFields(item_struct.fields)]

visit_item_enum_mut(item_enum) ==
    [item_enum EXCEPT !.variants =
        [k \in 1..Len(item_enum.variants) |->
            [item_enum.variants[k] EXCEPT !.fields = FilterFields(item_enum.variants[k].fields)]]]

visit_item_mut(item, cfg) ==
    CASE item.item = "Fn" ->
            IF is_spec_or_proof_fn(item.mode) THEN item ELSE visit_item_fn_mut(item, cfg)
      [] item.item = "Struct" -> visit_item_struct_mut(item)
      [] item.item = "Enum" -> visit_item_enum_mut(item)
      [] item.item = "Trait" ->
            [item EXCEPT !.items =
                [k \in 1..Len(item.items) |-> visit_trait_item_fn_mut(item.items[k], cfg)]]
      [] item.item = "Impl" ->
            [item EXCEPT !.items =
                [k \in 1..Len(item.items) |-> visit_impl_item_fn_mut(item.items[k], cfg)]]
      [] OTHER -> item

\* a variant of the retain closure that only looks for the spec modes
RetainItem_SpecOnly(item) ==
    IF item.item = "Fn" THEN item.mode \notin {"Spec", "SpecChecked"} ELSE TRUE

RetainItem(item) ==
    IF item.item = "Fn" THEN ~is_spec_or_proof_fn(item.mode) ELSE TRUE

\* a variant of visit_file_mut whose retain does not keep the order (swap_remove)
Reverse(xs) == [k \in 1..Len(xs) |-> xs[Len(xs) + 1 - k]]
visit_file_mut_Unstable(f, cfg) ==
    LET visited == [k \in 1..Len(f) |-> visit_item_mut(f[k], cfg)]
    IN  Reverse(SelectSeq(visited, RetainItem))

visit_file_mut(f, cfg) ==
    LET visited == [k \in 1..Len(f) |-> visit_item_mut(f[k], cfg)]
    IN  SelectSeq(visited, RetainItem)

(***************************************************************************)
(* verus_syn::parse_file and verus_prettyplease::unparse, on the fragment  *)
(* of the language the texts of the model are written in.  A text is a     *)
(* sequence of characters; each keyword of the fragment is one character:  *)
(*   File  ::= { Item }            blanks, newlines and line comments      *)
(*                                 ("/" "/" up to the end of the line)     *)
(*                                 between tokens                          *)
(*   Item  ::= { Doc } ( Fn | Const )                                      *)
(*   Doc   ::= "#" text            a doc comment line; text is one element *)
(*   Fn    ::= [ "S" | "P" ] "F" [ "R" ] [ "E" ] "{" "}"                   *)
(*             S  spec,  P  proof,  F  fn f(),  R  requires b > 0,         *)
(*             E  ensures r <= a, r >= 0                                   *)
(*   Const ::= "\"" { character other than the quote } "\""                *)
(*             an item whose value is a string literal                     *)
(* Anything else is a parse error.  unparse prints one item per line.      *)
(***************************************************************************)
MkConst(attrs, value) == [item |-> "Const", name |-> "c", attrs |-> attrs, value |-> value]

\* the offset of the next quote at or after k, or None
RECURSIVE QuoteFrom(_, _)
QuoteFrom(text, k) ==
    IF k >= Len(text) THEN None
    ELSE IF Byte(text, k) = "\"" THEN k
    ELSE QuoteFrom(text, k + 1)

\* Fn read at offset k: <<node, offset after it>>, or <<>> when there is none
ParseFn(text, k, attrs) ==
    LET mode == IF k < Len(text) /\ Byte(text, k) = "S" THEN "Spec"
                ELSE IF k < Len(text) /\ Byte(text, k) = "P" THEN "Proof"
                ELSE "Default"
        kf == IF mode = "Default" THEN k ELSE k + 1
        has_r == kf + 1 < Len(text) /\ Byte(text, kf + 1) = "R"
        ke == IF has_r THEN kf + 2 ELSE kf + 1
        has_e == ke < Len(text) /\ Byte(text, ke) = "E"
        kb == IF has_e THEN ke + 1 ELSE ke
        spec == [EmptySpec EXCEPT
                    !.requires = IF has_r THEN Some([exprs |-> <<"b > 0">>]) ELSE NoneOpt,
                    !.ensures = IF has_e THEN Some([exprs |-> <<"r <= a", "r >= 0">>])
                                ELSE NoneOpt]
    IN  IF /\ kf < Len(text) /\ Byte(text, kf) = "F"
           /\ kb + 1 < Len(text) /\ Byte(text, kb) = "{" /\ Byte(text, kb + 1) = "}"
        THEN <<[item |-> "Fn", name |-> "f", vis |-> "priv", attrs |-> attrs, mode |-> mode,
                spec |-> spec, inputs |-> <<>>, block |-> Some(<<>>)], kb + 2>>
        ELSE <<>>

\* the offset after the line comment that starts at k
RECURSIVE CommentEnd(_, _)
CommentEnd(text, k) ==
    IF k >= Len(text) THEN k
    ELSE IF Byte(text, k) = "\n" THEN k + 1
    ELSE CommentEnd(text, k + 1)

RECURSIVE ParseItems(_, _, _, _)
ParseItems(text, k, items, attrs) ==
    IF k >= Len(text) THEN (IF attrs = <<>> THEN Ok(items) ELSE Err("ParseError"))
    ELSE LET ch == Byte(text, k)
         IN  IF is_whitespace(ch) THEN ParseItems(text, k + 1, items, attrs)
             ELSE IF ch = "/" /\ k + 1 < Len(text) /\ Byte(text, k + 1) = "/"
                 THEN ParseItems(text, CommentEnd(text, k + 2), items, attrs)
             ELSE IF ch = "#" THEN
                 IF k + 1 < Len(text)
                 THEN ParseItems(text, k + 2, items, Append(attrs, [doc |-> Byte(text, k + 1)]))
                 ELSE Err("ParseError")
             ELSE IF ch = "\"" THEN
                 LET q == QuoteFrom(text, k + 1)
                 IN  IF q = None THEN Err("ParseError")
                     ELSE ParseItems(text, q + 1,
                                     Append(items, MkConst(attrs, Slice(text, k + 1, q))), <<>>)
             ELSE LET fn == ParseFn(text, k, attrs)
                  IN  IF fn = <<>> THEN Err("ParseError")
                      ELSE ParseItems(text, fn[2], Append(items, fn[1]), <<>>)

parse_file(text) == ParseItems(text, 0, <<>>, <<>>)

UnparseAttrs(attrs) == Concat([k \in 1..Len(attrs) |-> <<"#", attrs[k].doc, "\n">>])

UnparseItem(item) ==
    UnparseAttrs(item.attrs)
    \o (IF item.item = "Const" THEN <<"\"">> \o item.value \o <<"\"">>
        ELSE (IF item.mode \in {"Spec", "SpecChecked"} THEN <<"S">>
              ELSE IF item.mode \in {"Proof", "ProofAxiom"} THEN <<"P">> ELSE <<>>)
             \o <<"F">>
             \o (IF item.spec.requires # NoneOpt THEN <<"R">> ELSE <<>>)
             \o (IF item.spec.ensures # NoneOpt THEN <<"E">> ELSE <<>>)
             \o <<"{", "}">>)
    \o <<"\n">>

unparse(f) == Concat([k \in 1..Len(f) |-> UnparseItem(f[k])])

(***************************************************************************)
(* The inputs of the model: the nodes a parser can produce.                *)
(***************************************************************************)
MkArg(name, tracked, kind, ty) == [name |-> name, tracked |-> tracked, kind |-> kind, ty |-> ty]
MkField(name, mode) == [name |-> name, mode |-> mode]
MkExpr(kind, op, name, args, blocks) ==
    [expr |-> kind, op |-> op, name |-> name, args |-> args, blocks |-> blocks]
ExprStmt(e) == [stmt |-> "Expr", expr |-> e]
LocalStmt(name, ghost, tracked, init) ==
    [stmt |-> "Local", name |-> name, ghost |-> ghost, tracked |-> tracked, init |-> init]
MacroStmt(name) == [stmt |-> "Macro", name |-> name]
ItemStmt(name) == [stmt |-> "Item", name |-> name]
MkFn(name, vis, mode, spec, inputs, block) ==
    [item |-> "Fn", name |-> name, vis |-> vis, attrs |-> <<>>, mode |-> mode,
     spec |-> spec, inputs |-> inputs, block |-> block]
MkStruct(name, style, list) ==
    [item |-> "Struct", name |-> name, fields |-> [style |-> style, list |-> list]]
MkVariant(name, style, list) == [name |-> name, fields |-> [style |-> style, list |-> list]]
MkEnum(name, variants) == [item |-> "Enum", name |-> name, variants |-> variants]
MkTrait(name, items) == [item |-> "Trait", name |-> name, items |-> items]
MkImpl(name, items) == [item |-> "Impl", name |-> name, items |-> items]
MkOther(name) == [item |-> "Other", name |-> name]

FnModes == {"Default", "Exec", "Spec", "SpecChecked", "Proof", "ProofAxiom"}

\* sequences without a repeated name
DistinctNames(xs) == \A a, b \in 1..Len(xs) : a # b => xs[a].name # xs[b].name
DistinctSeqs(S, n) == {xs \in SeqsUpTo(S, n) : DistinctNames(xs)}

\* fn parameters: x: u32, Ghost(g): Ghost<int>, Tracked(t): Tracked<T>, tracked p: T
TypedArgs ==
    {MkArg("x", FALSE, "Typed", "u32"), MkArg("g", FALSE, "Typed", "Ghost"),
     MkArg("t", FALSE, "Typed", "Tracked"), MkArg("p", TRUE, "Typed", "T")}
Receiver == MkArg("self", FALSE, "Receiver", "Self")
ArgLists == DistinctSeqs(TypedArgs, MaxParams)

FieldPool ==
    {MkField("a", "Default"), MkField("b", "Exec"),
     MkField("gf", "Ghost"), MkField("tf", "Tracked")}
FieldLists == DistinctSeqs(FieldPool, MaxFields)

\* contract clauses
Clause(exprs) == Some([exprs |-> exprs])
ReqEns == [EmptySpec EXCEPT !.requires = Clause(<<"b > 0">>),
                            !.ensures = Clause(<<"r <= a", "r >= 0">>)]
OnlyDecreases == [EmptySpec EXCEPT !.decreases = Clause(<<"n">>)]
FullSpec ==
    [requires |-> Clause(<<"b > 0">>),
     recommends |-> Some([exprs |-> <<"a > 0">>, via |-> Some("lemma")]),
     ensures |-> Clause(<<"r <= a">>),
     default_ensures |-> Clause(<<"true">>),
     returns |-> Clause(<<"a / b">>),
     decreases |-> Clause(<<"n">>),
     invariants |-> Some([set |-> [kind |-> "List", exprs |-> <<"i1", "i2">>]]),
     unwind |-> Some([when |-> Some("a == 0")])]
SpecPool == {EmptySpec, ReqEns, OnlyDecreases, FullSpec}

\* expressions and statements of a body
Plain(kind, op) == MkExpr(kind, op, "", <<>>, <<>>)
MacroExpr(name) == MkExpr("Macro", "", name, <<>>, <<>>)
CallExpr(func, args) == MkExpr("Call", "", func, args, <<>>)
StructExpr(name, fieldnames) == MkExpr("Struct", "", name, fieldnames, <<>>)
ExecLet == LocalStmt("y", FALSE, FALSE, <<>>)
GhostLet == LocalStmt("gy", TRUE, FALSE, <<>>)
TrackedLet == LocalStmt("ty", FALSE, TRUE, <<>>)
Arith == ExprStmt(Plain("Binary", "Add"))
AssertStmt == ExprStmt(Plain("Assert", ""))

\* every kind of statement without a nested block
LeafStmts ==
    {ExprStmt(Plain("Unary", op)) : op \in {"Forall", "Exists", "Choose", "Neg"}}
    \cup {ExprStmt(Plain(k, "")) : k \in {"View", "BigAnd", "BigOr", "Assert", "Assume",
                                          "AssertForall", "Lit"}}
    \cup {ExprStmt(Plain("Binary", op)) : op \in {"Imply", "Exply", "Equiv", "Add"}}
    \cup {ExprStmt(MacroExpr(n)) : n \in {"assert", "assume", "proof", "calc", "vec"}}
    \cup {MacroStmt(n) : n \in {"proof", "calc", "assert_forall_by", "assert_by",
                                "open_invariant", "open_local_invariant",
                                "println", "assert"}}
    \cup {ExecLet, GhostLet, TrackedLet, ItemStmt("use")}

\* statements that hold nested blocks: if {..} else {..}, proof {..}, let z = {..};
IfStmt(then_branch, else_branch) ==
    ExprStmt(MkExpr("If", "", "", <<>>, <<then_branch, else_branch>>))
\* while i < n invariant 0 <= i <= n decreases n - i { .. }: the loop carries its
\* clauses in fields of its own, next to its body
WhileStmt(invariant, decreases, body) ==
    ExprStmt([expr |-> "While", op |-> "", name |-> "", args |-> <<>>, blocks |-> <<body>>,
              invariant |-> invariant, decreases |-> decreases])
AnnotatedWhile == WhileStmt(Some(<<"0 <= i <= n">>), Some(<<"n - i">>), <<GhostLet, Arith>>)
NestedStmts ==
    {IfStmt(<<AssertStmt, Arith>>, <<ExecLet>>),
     AnnotatedWhile,
     WhileStmt(NoneOpt, NoneOpt, <<Arith>>),
     IfStmt(<<GhostLet>>, <<IfStmt(<<MacroStmt("proof"), ExecLet>>, <<>>)>>),
     ExprStmt(MkExpr("Unary", "Proof", "", <<>>, <<<<AssertStmt>>>>)),
     LocalStmt("z", FALSE, FALSE,
               Some(MkExpr("Block", "", "", <<>>, <<<<GhostLet, Arith>>>>)))}

\* the statements bodies of several statements are made of
BodyStmts ==
    {Arith, AssertStmt, ExecLet, GhostLet, TrackedLet,
     ExprStmt(Plain("Binary", "Imply")), ExprStmt(MacroExpr("vec")),
     MacroStmt("proof"), MacroStmt("println"), ItemStmt("use")}
    \cup NestedStmts
Blocks == SeqsUpTo(BodyStmts, MaxStmts) \cup {<<st>> : st \in LeafStmts}

(***************************************************************************)
(* The files of the model.  A file is well formed: names are distinct, a   *)
(* call passes one argument per parameter of the function it calls and a   *)
(* struct literal names every field of its struct.                         *)
(***************************************************************************)
Body0 == Some(<<Arith>>)
ExecFn(name, inputs, block) == MkFn(name, "priv", "Default", ReqEns, inputs, block)

\* one function, in each container, with every parameter list
ParamFiles ==
    UNION {{<<MkFn("f", "priv", m, ReqEns, ps, Body0)>>,
            <<MkImpl("Im", <<MkFn("m", "pub", m, ReqEns, <<Receiver>> \o ps, Body0)>>)>>,
            <<MkTrait("Tr", <<MkFn("m", "priv", m, ReqEns, <<Receiver>> \o ps, NoneOpt)>>)>>} :
           ps \in ArgLists, m \in {"Default", "Proof"}}

\* one function, in each container, with every mode, contract and visibility
ModeFiles ==
    UNION {{<<MkFn("f", v, m, sp, <<>>, Body0)>>,
            <<MkImpl("Im", <<MkFn("m", v, m, sp, <<Receiver>>, Body0)>>)>>,
            <<MkTrait("Tr", <<MkFn("m", "priv", m, sp, <<Receiver>>, Body0)>>)>>} :
           v \in {"pub", "priv"}, m \in FnModes, sp \in SpecPool}

\* one function with every body
BodyFiles == {<<MkFn("f", "priv", "Default", EmptySpec, <<>>, Some(b))>> : b \in Blocks}

\* one struct or enum with every field list
FieldFiles ==
    {<<MkStruct("St", style, fs)>> : style \in {"Named", "Unnamed"}, fs \in FieldLists}
    \cup {<<MkStruct("Un", "Unit", <<>>)>>}
    \cup {<<MkEnum("En", <<MkVariant("A", "Named", fs), MkVariant("B", "Unnamed", gs),
                           MkVariant("C", "Unit", <<>>)>>)>> :
            fs \in FieldLists, gs \in FieldLists}

\* a function and a caller of it; a struct and a function that builds it
ArgText(arg) == IF arg.ty = "Ghost" THEN "Ghost(" \o arg.name \o ")"
                ELSE IF arg.ty = "Tracked" THEN "Tracked(" \o arg.name \o ")"
                ELSE arg.name
ArgTexts(ps) == [k \in 1..Len(ps) |-> ArgText(ps[k])]
FieldNames(fs) == [k \in 1..Len(fs) |-> fs[k].name]
UseFiles ==
    {<<ExecFn("f", ps, Body0),
       ExecFn("h", ps, Some(<<ExprStmt(CallExpr("f", ArgTexts(ps)))>>))>> : ps \in ArgLists}
    \cup {<<MkStruct("St", "Named", fs),
            ExecFn("mk", <<>>, Some(<<ExprStmt(StructExpr("St", FieldNames(fs)))>>))>> :
          fs \in FieldLists}

\* the members of a trait or impl, and the items of a file
MethodPool ==
    {MkFn("sm", "priv", "Spec", EmptySpec, <<Receiver>>, Body0),
     MkFn("pm", "priv", "Proof", ReqEns, <<Receiver, MkArg("p", TRUE, "Typed", "T")>>, Body0),
     MkFn("em", "pub", "Default", ReqEns,
          <<Receiver, MkArg("x", FALSE, "Typed", "u32"), MkArg("g", FALSE, "Typed", "Ghost")>>,
          Some(<<AssertStmt, Arith>>)),
     MkFn("xm", "priv", "Exec", EmptySpec, <<Receiver>>, Body0)}
TraitMethodPool ==
    MethodPool \cup {MkFn("dm", "priv", "Default", ReqEns, <<Receiver>>, NoneOpt),
                     MkFn("sd", "priv", "Spec", EmptySpec, <<Receiver>>, NoneOpt)}
ContainerFiles ==
    {<<MkImpl("Im", ms)>> : ms \in DistinctSeqs(MethodPool, MaxItems)}
    \cup {<<MkTrait("Tr", ms)>> : ms \in DistinctSeqs(TraitMethodPool, MaxItems)}

ItemPool ==
    {MkFn("sf", "pub", "Spec", EmptySpec, <<MkArg("x", FALSE, "Typed", "u32")>>, Body0),
     MkFn("lem", "priv", "Proof", ReqEns, <<MkArg("p", TRUE, "Typed", "T")>>, Body0),
     ExecFn("f", <<MkArg("x", FALSE, "Typed", "u32"), MkArg("g", FALSE, "Typed", "Ghost")>>,
            Some(<<GhostLet, Arith>>)),
     MkFn("e", "pub", "Exec", FullSpec, <<>>, Body0),
     MkStruct("St", "Named", <<MkField("a", "Default"), MkField("gf", "Ghost")>>),
     MkEnum("En", <<MkVariant("A", "Unnamed", <<MkField("tf", "Tracked")>>)>>),
     MkImpl("Im", <<MkFn("sm", "priv", "Spec", EmptySpec, <<Receiver>>, Body0),
                    MkFn("em", "priv", "Default", ReqEns, <<Receiver>>, Body0)>>),
     MkTrait("Tr", <<MkFn("dm", "priv", "Default", ReqEns, <<Receiver>>, NoneOpt)>>),
     MkOther("use")}
ItemFiles == DistinctSeqs(ItemPool, MaxItems)

Files == ParamFiles \cup ModeFiles \cup BodyFiles \cup FieldFiles \cup UseFiles
         \cup ContainerFiles \cup ItemFiles

(***************************************************************************)
(* config.rs: Config (the fields the model reads).                         *)
(***************************************************************************)
DefaultConfig == [spec_as_comments |-> FALSE]
Configs == [spec_as_comments : BOOLEAN]

(***************************************************************************)
(* lib.rs: strip_source.  The result is the Result<String> together with   *)
(* the File before and after the visitor ran (<<>> when the pipeline       *)
(* stopped before).  The visitor is built by StripVisitor::new() with no   *)
(* argument, where the constructor of visitor.rs takes a &Config: the call *)
(* as written fixes no configuration for the visitor.  A build of the      *)
(* crate gives the constructor either the default configuration ("default")*)
(* or the configuration the function was given ("config"); the model keeps *)
(* both, as the variable build.                                            *)
(***************************************************************************)
Builds == {"default", "config"}
VisitorConfig(cfg) == IF build = "config" THEN cfg ELSE DefaultConfig

strip_source(text, _config) ==
    LET preprocessed == unwrap_verus_macros(text)
    IN  IF ~preprocessed.ok THEN [result |-> preprocessed, parsed |-> <<>>, visited |-> <<>>]
        ELSE LET parsed == parse_file(preprocessed.val)
             IN  IF ~parsed.ok
                 THEN [result |-> Err("ParseError"), parsed |-> <<>>, visited |-> <<>>]
                 ELSE LET visited == visit_file_mut(parsed.val, VisitorConfig(_config))
                      IN  [result |-> Ok(unparse(visited)),
                           parsed |-> parsed.val, visited |-> visited]

(***************************************************************************)
(* Paths and the file system.  A path is <<directory, stem, extension>>;   *)
(* disk maps a path to Some(text) when it is a file, to None otherwise.    *)
(* The tool is given InPath (a file), LockedPath (a file that cannot be    *)
(* written), DirPath (a directory) or MissingPath (nothing); Config::output*)
(* points, when it is set, to OutPath or to LostPath, a file in a          *)
(* directory that does not exist.  The directory holds up to MaxEntries    *)
(* entries, EntryPath(k, ext).                                             *)
(***************************************************************************)
InPath == <<"", "in", "rs">>
OutPath == <<"", "out", "rs">>
DirPath == <<"", "d", "">>
MissingPath == <<"", "missing", "rs">>
LockedPath == <<"", "locked", "rs">>
LostPath == <<"missing", "out", "rs">>
ReadOnly == {LockedPath}
Stems == <<"f1", "f2", "f3", "f4", "f5", "f6">>
EntryPath(k, ext) == <<"d", Stems[k], ext>>
FilePaths == {InPath, OutPath, LockedPath} \cup {EntryPath(k, ext) : k \in 1..MaxEntries, ext \in {"rs", "txt"}}
extension(path) == path[3]

EmptyFs == [p \in FilePaths |-> NoneOpt]
NoRun == [caller |-> "-", input |-> InPath, listing |-> <<>>, todo |-> <<>>, processed |-> 0,
          errors |-> 0, attempted |-> <<>>, result |-> <<>>, exit_code |-> <<>>]

\* the specifications that run no orchestrator leave the outside world alone
NoIo ==
    /\ disk = EmptyFs
    /\ stdout = <<>>
    /\ stderr = <<>>
    /\ run = NoRun

(***************************************************************************)
(* SpecVisit: the parser has produced a File; StripVisitor::visit_file_mut *)
(* runs on it.                                                             *)
(***************************************************************************)
InitVisit ==
    /\ input \in Files
    /\ file = input
    /\ config \in Configs
    /\ source = <<>>
    /\ scan = ScanInit(0)
    /\ output = <<>>
    /\ phase = "parsed"
    /\ NoIo
    /\ build = "config"

VisitFile ==
    /\ phase = "parsed"
    /\ file' = visit_file_mut(file, config)
    /\ phase' = "visited"
    /\ UNCHANGED <<source, scan, input, config, build, output, iovars>>

NextVisit == VisitFile

SpecVisit == InitVisit /\ [][NextVisit]_vars


(***************************************************************************)
(* SpecScan: find_matching_brace runs on a text, one loop iteration per    *)
(* step.  The text is an opening brace followed by up to MaxScanLen        *)
(* characters; the scan starts right after the opening brace, as           *)
(* unwrap_verus_macros calls it.                                           *)
(***************************************************************************)
ScanAlphabet == {"{", "}", "'", "\"", "\\", "/", "*", "\n", "a"}
ScanSources == {<<"{">> \o t : t \in SeqsUpTo(ScanAlphabet, MaxScanLen)}

InitScan ==
    /\ source \in ScanSources
    /\ scan = ScanInit(1)
    /\ input = <<>>
    /\ file = <<>>
    /\ config = DefaultConfig
    /\ output = <<>>
    /\ phase = "scan"
    /\ NoIo
    /\ build = "config"

ScanLoop ==
    /\ phase = "scan"
    /\ Scanning(source, scan)
    /\ scan' = ScanStep(source, scan)
    /\ UNCHANGED <<source, input, file, config, build, output, phase, iovars>>

NextScan == ScanLoop

SpecScan == InitScan /\ [][NextScan]_vars

(***************************************************************************)
(* SpecStrip: strip_source runs on a text, and then again on each text it  *)
(* returns, up to MaxPasses times, with the same configuration.  A text is *)
(* up to MaxSegments segments: items, items in a verus! { } block, and     *)
(* broken pieces (an unclosed block, a character outside the fragment).    *)
(* output keeps the Result of each pass; input and file are the File of    *)
(* the first pass before and after the visitor.                            *)
(***************************************************************************)
BaseItems ==
    {<<"F", "{", "}">>,
     <<"F", "R", "E", "{", "}">>,
     <<"S", "F", "{", "}">>,
     <<"\"", "a", "\"">>,
     <<"\"">> \o Marker \o <<"a", "b", "\"">>}
\* the character literal 'a'
CharLiteral == <<"'", "a", "'">>
\* the comment after the brace that closes a wrapper: // verus!
CommentMarker == <<"/", "/", " ">> \o Marker \o <<"\n">>
Wrapped(inner) == Marker \o <<" ", "{">> \o inner \o <<"}">>
\* a wrapper whose brace opens on the next line of a text with CRLF line ends
CrLfWrapped == Marker \o <<"\r", "\n", "{", "F", "{", "}", "}">>
Segments ==
    BaseItems
    \cup {Wrapped(b) : b \in BaseItems}
    \cup {Wrapped(CharLiteral), CrLfWrapped}
    \cup {CommentMarker}
    \cup {Marker \o <<"{">>, <<"x">>}
StripSources == {Concat(ss) : ss \in SeqsUpTo(Segments, MaxSegments)}

InitStrip ==
    /\ source \in StripSources
    /\ config \in Configs
    /\ scan = ScanInit(0)
    /\ input = <<>>
    /\ file = <<>>
    /\ output = <<>>
    /\ phase = "strip"
    /\ NoIo
    /\ build \in Builds

StripSource ==
    /\ phase = "strip"
    /\ Len(output) < MaxPasses
    /\ output # <<>> => output[Len(output)].ok
    /\ LET text == IF output = <<>> THEN source ELSE output[Len(output)].val
           r == strip_source(text, config)
       IN  /\ output' = Append(output, r.result)
           /\ input' = IF output = <<>> THEN r.parsed ELSE input
           /\ file' = IF output = <<>> THEN r.visited ELSE file
    /\ UNCHANGED <<source, scan, config, build, phase, iovars>>

NextStrip == StripSource

SpecStrip == InitStrip /\ [][NextStrip]_vars

(***************************************************************************)
(* lib.rs: strip_file, process_file, process and process_directory.  io is *)
(* the outside world an operation works on, [disk, stdout, stderr]; an     *)
(* operation returns its Result with the world as it leaves it.  A line on *)
(* stdout or stderr is a record naming what was printed.  fs::write fails  *)
(* on a path the file system cannot create or open for writing, and then   *)
(* leaves the file system as it was.                                       *)
(***************************************************************************)
ProcessConfigs ==
    [output : {NoneOpt, Some(OutPath), Some(LostPath)}, in_place : BOOLEAN, recursive : BOOLEAN,
     check : BOOLEAN, keep_empty : BOOLEAN, spec_as_comments : BOOLEAN]

exists(d, path) == path = DirPath \/ (path \in DOMAIN d /\ d[path] # NoneOpt)
is_file(d, path) == path \in DOMAIN d /\ d[path] # NoneOpt
is_dir(d, path) == path = DirPath

\* the test before the warning of strip_file; the first variant forgets keep_empty
warn_empty_Always(items, cfg) == items = <<>>

warn_empty(items, cfg) == items = <<>> /\ ~cfg.keep_empty

\* the Result<String>, with the text that was read and whether the warning was
\* printed
strip_file(d, path, cfg) ==
    IF ~is_file(d, path) THEN [result |-> Err("IoError"), source |-> <<>>, warned |-> FALSE]
    ELSE LET preprocessed == unwrap_verus_macros(d[path][1])
         IN  IF ~preprocessed.ok
             THEN [result |-> preprocessed, source |-> d[path][1], warned |-> FALSE]
             ELSE LET parsed == parse_file(preprocessed.val)
                  IN  IF ~parsed.ok
                      THEN [result |-> Err("ParseError"), source |-> d[path][1],
                            warned |-> FALSE]
                      ELSE LET visited == visit_file_mut(parsed.val, VisitorConfig(cfg))
                           IN  [result |-> Ok(unparse(visited)), source |-> d[path][1],
                                warned |-> warn_empty(visited, cfg)]

\* fs::write: the file system after the write, or the error mapped to WriteError
writable(d, path) == path \in DOMAIN d /\ path \notin ReadOnly
fs_write(d, path, text) ==
    IF writable(d, path) THEN Ok([d EXCEPT ![path] = Some(text)]) ELSE Err("WriteError")

\* process_file: fs::write(target, stripped).map_err(WriteError)? and the line
\* "Stripped ..." that follows it
WriteTo(base, target, path, text) ==
    LET w == fs_write(base.disk, target, text)
    IN  IF ~w.ok THEN [base EXCEPT !.result = w]
        ELSE [base EXCEPT !.disk = w.val,
                          !.stderr = Append(@, [line |-> "stripped", path |-> path])]

\* a variant of the routing that empties the input file of a failed in_place run
RouteOutput_WriteOnError(io, path, cfg, st) ==
    LET stripped == st.result.val
        err0 == IF st.warned THEN Append(io.stderr, [line |-> "warning", path |-> path])
                ELSE io.stderr
        base == [result |-> Ok(<<>>), strip |-> st, disk |-> io.disk,
                 stdout |-> io.stdout, stderr |-> err0]
    IN  IF ~st.result.ok
        THEN [base EXCEPT !.result = st.result,
                          !.disk = IF cfg.in_place /\ writable(io.disk, path)
                                   THEN fs_write(@, path, <<>>).val ELSE @]
        ELSE IF cfg.check
        THEN [base EXCEPT !.stdout = Append(@, [line |-> "check", path |-> path])]
        ELSE IF cfg.in_place
        THEN WriteTo(base, path, path, stripped)
        ELSE IF cfg.output # NoneOpt
        THEN WriteTo(base, cfg.output[1], path, stripped)
        ELSE [base EXCEPT !.stdout = Append(@, [line |-> "text", text |-> stripped])]

\* a variant of the routing that looks at in_place before check
RouteOutput_InPlaceFirst(io, path, cfg, st) ==
    LET stripped == st.result.val
        err0 == IF st.warned THEN Append(io.stderr, [line |-> "warning", path |-> path])
                ELSE io.stderr
        base == [result |-> Ok(<<>>), strip |-> st, disk |-> io.disk,
                 stdout |-> io.stdout, stderr |-> err0]
    IN  IF ~st.result.ok THEN [base EXCEPT !.result = st.result]
        ELSE IF cfg.in_place
        THEN WriteTo(base, path, path, stripped)
        ELSE IF cfg.check
        THEN [base EXCEPT !.stdout = Append(@, [line |-> "check", path |-> path])]
        ELSE IF cfg.output # NoneOpt
        THEN WriteTo(base, cfg.output[1], path, stripped)
        ELSE [base EXCEPT !.stdout = Append(@, [line |-> "text", text |-> stripped])]

\* process_file once strip_file has returned st
RouteOutput(io, path, cfg, st) ==
    LET stripped == st.result.val
        err0 == IF st.warned THEN Append(io.stderr, [line |-> "warning", path |-> path])
                ELSE io.stderr
        base == [result |-> Ok(<<>>), strip |-> st, disk |-> io.disk,
                 stdout |-> io.stdout, stderr |-> err0]
    IN  IF ~st.result.ok THEN [base EXCEPT !.result = st.result]
        ELSE IF cfg.check
        THEN [base EXCEPT !.stdout = Append(@, [line |-> "check", path |-> path])]
        ELSE IF cfg.in_place
        THEN WriteTo(base, path, path, stripped)
        ELSE IF cfg.output # NoneOpt
        THEN WriteTo(base, cfg.output[1], path, stripped)
        ELSE [base EXCEPT !.stdout = Append(@, [line |-> "text", text |-> stripped])]

process_file(io, path, cfg) == RouteOutput(io, path, cfg, strip_file(io.disk, path, cfg))

World == [disk |-> disk, stdout |-> stdout, stderr |-> stderr]
Attempt(path, r) ==
    [path |-> path, result |-> r.result, strip |-> r.strip]

(***************************************************************************)
(* SpecProcess: the orchestrator runs on a file system.  It is entered     *)
(* through main (the command line, which validates the flags and turns the *)
(* result into an exit code) or by a call of the library's process.  The   *)
(* walk of process_directory handles one entry of the walker per step; the *)
(* walker yields the directory itself and then its entries in the order    *)
(* the directory lists them, an entry it cannot read as an error.          *)
(***************************************************************************)
ExecText == <<"F", "R", "E", "{", "}">>
SpecOnlyText == Wrapped(<<"S", "F", "{", "}">>)
UnmatchedText == Marker \o <<"{">>
BadText == <<"x">>
TextPool == {ExecText, SpecOnlyText, UnmatchedText, BadText}

\* a directory entry: a walker error, or a file with its extension and text
EntryKinds ==
    {[ok |-> TRUE, ext |-> "rs", text |-> t] : t \in TextPool}
    \cup {[ok |-> TRUE, ext |-> "txt", text |-> BadText],
          [ok |-> FALSE, ext |-> "rs", text |-> ExecText]}

DirDisk(entries) ==
    [p \in FilePaths |->
        IF \E k \in 1..Len(entries) : p = EntryPath(k, entries[k].ext)
        THEN Some(entries[CHOOSE k \in 1..Len(entries) : p = EntryPath(k, entries[k].ext)].text)
        ELSE NoneOpt]
DirListing(entries) ==
    <<[ok |-> TRUE, path |-> DirPath]>>
    \o [k \in 1..Len(entries) |-> [ok |-> entries[k].ok, path |-> EntryPath(k, entries[k].ext)]]

Worlds ==
    {[input |-> InPath, disk |-> [EmptyFs EXCEPT ![InPath] = Some(t)], listing |-> <<>>] :
        t \in TextPool}
    \cup {[input |-> LockedPath, disk |-> [EmptyFs EXCEPT ![LockedPath] = Some(t)],
            listing |-> <<>>] : t \in TextPool}
    \cup {[input |-> MissingPath, disk |-> EmptyFs, listing |-> <<>>]}
    \cup {[input |-> DirPath, disk |-> DirDisk(es), listing |-> DirListing(es)] :
            es \in SeqsUpTo(EntryKinds, MaxEntries)}

InitProcess ==
    /\ source = <<>>
    /\ scan = ScanInit(0)
    /\ input = <<>>
    /\ file = <<>>
    /\ output = <<>>
    /\ config \in ProcessConfigs
    /\ build \in Builds
    /\ stdout = <<>>
    /\ stderr = <<>>
    /\ \E w \in Worlds, caller \in {"main", "lib"} :
          /\ caller = "main" => ~config.spec_as_comments
          /\ disk = w.disk
          /\ run = [NoRun EXCEPT !.caller = caller, !.input = w.input, !.listing = w.listing]
          /\ phase = IF caller = "main" THEN "main" ELSE "process"

\* process: process_file(run.input) has returned r
FileProcessed(path, r) ==
    /\ run' = [run EXCEPT !.result = Some(r.result),
                          !.attempted = Append(@, Attempt(path, r))]
    /\ disk' = r.disk
    /\ stdout' = r.stdout
    /\ stderr' = r.stderr

\* a variant of the match in which an error ends the walk
EntryProcessed_AbortOnError(path, r) ==
    /\ run' = [run EXCEPT !.todo = IF r.result.ok THEN Tail(@) ELSE <<>>,
                          !.processed = IF r.result.ok THEN @ + 1 ELSE @,
                          !.errors = IF r.result.ok THEN @ ELSE @ + 1,
                          !.attempted = Append(@, Attempt(path, r))]
    /\ disk' = r.disk
    /\ stdout' = r.stdout
    /\ stderr' = IF r.result.ok THEN r.stderr
                 ELSE Append(r.stderr, [line |-> "error", path |-> path])

\* process_directory: the match on process_file's result r for one entry
EntryProcessed(path, r) ==
    /\ run' = [run EXCEPT !.todo = Tail(@),
                          !.processed = IF r.result.ok THEN @ + 1 ELSE @,
                          !.errors = IF r.result.ok THEN @ ELSE @ + 1,
                          !.attempted = Append(@, Attempt(path, r))]
    /\ disk' = r.disk
    /\ stdout' = r.stdout
    /\ stderr' = IF r.result.ok THEN r.stderr
                 ELSE Append(r.stderr, [line |-> "error", path |-> path])

\* main.rs: what Cli::parse prints when in_place meets output, which the
\* declaration of in_place excludes (conflicts_with = "output"): the error,
\* the usage and the pointer to --help, with a blank line between them
UsageError(path) ==
    <<[line |-> "conflict", path |-> path], [line |-> "blank", path |-> path],
      [line |-> "usage", path |-> path], [line |-> "blank", path |-> path],
      [line |-> "help", path |-> path]>>

\* main.rs: main, up to the call of process
Main ==
    /\ phase = "main"
    /\ IF config.in_place /\ config.output # NoneOpt
       THEN \* Cli::parse leaves with status 2; the check that follows it in
            \* main is never reached with both flags
            /\ stderr' = stderr \o UsageError(run.input)
            /\ run' = [run EXCEPT !.exit_code = Some(2)]
            /\ phase' = "exited"
       ELSE IF ~config.recursive /\ is_dir(disk, run.input)
       THEN /\ stderr' = Append(stderr, [line |-> "error", path |-> run.input])
            /\ run' = [run EXCEPT !.exit_code = Some(1)]
            /\ phase' = "exited"
       ELSE /\ phase' = "process"
            /\ UNCHANGED <<stderr, run>>
    /\ UNCHANGED <<source, scan, input, file, config, build, output, disk, stdout>>

\* lib.rs: process, up to the start of the walk when the input is a directory
Process ==
    /\ phase = "process"
    /\ IF ~exists(disk, run.input)
       THEN /\ run' = [run EXCEPT !.result = Some(Err("IoError"))]
            /\ phase' = "done"
            /\ UNCHANGED <<disk, stdout, stderr>>
       ELSE IF is_file(disk, run.input)
       THEN /\ FileProcessed(run.input, process_file(World, run.input, config))
            /\ phase' = "done"
       ELSE IF config.recursive
       THEN /\ run' = [run EXCEPT !.todo = run.listing]
            /\ phase' = "walk"
            /\ UNCHANGED <<disk, stdout, stderr>>
       ELSE /\ run' = [run EXCEPT !.result = Some(Err("ConfigError"))]
            /\ phase' = "done"
            /\ UNCHANGED <<disk, stdout, stderr>>
    /\ UNCHANGED <<source, scan, input, file, config, build, output>>

\* lib.rs: process_directory, one iteration of the for loop
WalkEntry ==
    /\ phase = "walk"
    /\ run.todo # <<>>
    /\ LET entry == Head(run.todo)
       IN  IF ~entry.ok \/ extension(entry.path) # "rs"
           THEN /\ run' = [run EXCEPT !.todo = Tail(@)]
                /\ UNCHANGED <<disk, stdout, stderr>>
           ELSE EntryProcessed(entry.path, process_file(World, entry.path, config))
    /\ UNCHANGED <<source, scan, input, file, config, build, output, phase>>

\* a variant of the end of the walk that fails when no file was processed
WalkDone_FailsOnNone ==
    /\ phase = "walk"
    /\ run.todo = <<>>
    /\ stderr' = Append(stderr, [line |-> "summary", files |-> run.processed + run.errors,
                                 errors |-> run.errors])
    /\ run' = [run EXCEPT !.result = IF run.errors > 0 \/ run.processed = 0
                                     THEN Some(Err("ConfigError"))
                                     ELSE Some(Ok(<<>>))]
    /\ phase' = "done"
    /\ UNCHANGED <<source, scan, input, file, config, build, output, disk, stdout>>

\* lib.rs: process_directory, after the loop
WalkDone ==
    /\ phase = "walk"
    /\ run.todo = <<>>
    /\ stderr' = Append(stderr, [line |-> "summary", files |-> run.processed + run.errors,
                                 errors |-> run.errors])
    /\ run' = [run EXCEPT !.result = IF run.errors > 0 THEN Some(Err("ConfigError"))
                                     ELSE Some(Ok(<<>>))]
    /\ phase' = "done"
    /\ UNCHANGED <<source, scan, input, file, config, build, output, disk, stdout>>

\* main.rs: main, after process has returned
Exit ==
    /\ phase = "done"
    /\ run.caller = "main"
    /\ IF run.result[1].ok
       THEN /\ run' = [run EXCEPT !.exit_code = Some(0)]
            /\ UNCHANGED stderr
       ELSE /\ run' = [run EXCEPT !.exit_code = Some(1)]
            /\ stderr' = Append(stderr, [line |-> "error", path |-> run.input])
                          \o (IF has_source(run.result[1].err)
                              THEN <<[line |-> "caused by", path |-> run.input]>> ELSE <<>>)
    /\ phase' = "exited"
    /\ UNCHANGED <<source, scan, input, file, config, build, output, disk, stdout>>

NextProcess == Main \/ Process \/ WalkEntry \/ WalkDone \/ Exit

SpecProcess == InitProcess /\ [][NextProcess]_vars

(***************************************************************************)
(* What the claims speak of.  These definitions state the specification's  *)
(* taxonomy on the tree; none of them is used by the model of the code.    *)
(***************************************************************************)
\* every function of a file, as <<container, name, fn>>; container is "" for a
\* free top-level function and the trait's or impl's name for a method
FnTable(f) ==
    {<<"", f[k].name, f[k]>> : k \in {j \in 1..Len(f) : f[j].item = "Fn"}}
    \cup UNION {{<<f[k].name, f[k].items[j].name, f[k].items[j]>> : j \in 1..Len(f[k].items)} :
                k \in {j \in 1..Len(f) : f[j].item \in {"Trait", "Impl"}}}

SameFn(a, b) == a[1] = b[1] /\ a[2] = b[2]

ExecutableMode(mode) == mode \in {"Default", "Exec"}

\* the Qualifier of a parameter and of a field
Qualifier(arg) ==
    IF arg.kind = "Typed" /\ arg.ty = "Ghost" THEN "Ghost"
    ELSE IF arg.tracked \/ (arg.kind = "Typed" /\ arg.ty = "Tracked") THEN "Tracked"
    ELSE "Executable"
FieldQualifier(field) ==
    IF field.mode = "Ghost" THEN "Ghost"
    ELSE IF field.mode = "Tracked" THEN "Tracked"
    ELSE "Executable"
ExecutableArgs(inputs) == SelectSeq(inputs, LAMBDA a : Qualifier(a) = "Executable")
ExecutableFields(list) == SelectSeq(list, LAMBDA fd : FieldQualifier(fd) = "Executable")
GhostFields(list) == SelectSeq(list, LAMBDA fd : FieldQualifier(fd) # "Executable")

\* the expression variants of the data model that are specification-only
GhostExpr(e) ==
    \/ e.expr = "Unary" /\ e.op \in {"Proof", "Forall", "Exists", "Choose"}
    \/ e.expr \in {"View", "BigAnd", "BigOr", "Assert", "Assume", "AssertForall"}
    \/ e.expr = "Binary" /\ e.op \in {"Imply", "Exply", "Equiv"}
RemovalSet ==
    {"proof", "calc", "assert_forall_by", "assert_by", "open_invariant", "open_local_invariant"}
GhostStmt(st) ==
    \/ st.stmt = "Local" /\ (st.ghost \/ st.tracked)
    \/ st.stmt = "Expr" /\ GhostExpr(st.expr)
    \/ st.stmt = "Macro" /\ st.name \in RemovalSet

\* the executable statements of a block, at every depth, each one as it stands
RECURSIVE ExecutableBlock(_)
ExecutableStmt(st) ==
    CASE st.stmt = "Local" ->
            [st EXCEPT !.init = [k \in 1..Len(st.init) |->
                [st.init[k] EXCEPT !.blocks =
                    [j \in 1..Len(st.init[k].blocks) |-> ExecutableBlock(st.init[k].blocks[j])]]]]
      [] st.stmt = "Expr" ->
            [st EXCEPT !.expr.blocks =
                [j \in 1..Len(st.expr.blocks) |-> ExecutableBlock(st.expr.blocks[j])]]
      [] OTHER -> st
ExecutableBlock(block) ==
    LET kept == SelectSeq(block, LAMBDA st : ~GhostStmt(st))
    IN  [k \in 1..Len(kept) |-> ExecutableStmt(kept[k])]

\* every statement of a block, at every depth
RECURSIVE StmtsDeep(_)
ExprOf(st) == IF st.stmt = "Expr" THEN <<st.expr>>
              ELSE IF st.stmt = "Local" THEN st.init ELSE <<>>
StmtsDeep(block) ==
    {block[k] : k \in 1..Len(block)}
    \cup UNION {UNION {StmtsDeep(e.blocks[j]) : j \in 1..Len(e.blocks)} :
                e \in UNION {{ExprOf(block[k])[j] : j \in 1..Len(ExprOf(block[k]))} :
                             k \in 1..Len(block)}}
BodyOf(fn) == IF fn.block = NoneOpt THEN <<>> ELSE fn.block[1]
\* the expressions that are statements, or initialisers, in the bodies of a file
UseSites(f) ==
    UNION {UNION {{ExprOf(st)[j] : j \in 1..Len(ExprOf(st))} : st \in StmtsDeep(BodyOf(e[3]))} :
           e \in FnTable(f)}

\* every call passes one argument per parameter; every struct literal names
\* only fields its struct has
UseSitesAgree(f) ==
    \A e \in UseSites(f) :
        /\ e.expr = "Call" =>
              \A fn \in FnTable(f) :
                  (fn[1] = "" /\ fn[2] = e.name) => Len(e.args) = Len(fn[3].inputs)
        /\ e.expr = "Struct" =>
              \A k \in 1..Len(f) :
                  (f[k].item = "Struct" /\ f[k].name = e.name) =>
                      \A a \in 1..Len(e.args) :
                          \E b \in 1..Len(f[k].fields.list) : f[k].fields.list[b].name = e.args[a]

Names(xs) == [k \in 1..Len(xs) |-> xs[k].name]

\* out is in, with some statements left out, at every depth
RECURSIVE BlockSubseq(_, _)
BlocksSubseq(outs, ins) ==
    /\ Len(outs) = Len(ins)
    /\ \A k \in 1..Len(outs) : BlockSubseq(outs[k], ins[k])
StmtMatches(o, i) ==
    /\ o.stmt = i.stmt
    /\ CASE o.stmt = "Expr" ->
              /\ [o.expr EXCEPT !.blocks = <<>>] = [i.expr EXCEPT !.blocks = <<>>]
              /\ BlocksSubseq(o.expr.blocks, i.expr.blocks)
         [] o.stmt = "Local" ->
              /\ [o EXCEPT !.init = <<>>] = [i EXCEPT !.init = <<>>]
              /\ Len(o.init) = Len(i.init)
              /\ \A k \in 1..Len(o.init) :
                    /\ [o.init[k] EXCEPT !.blocks = <<>>] = [i.init[k] EXCEPT !.blocks = <<>>]
                    /\ BlocksSubseq(o.init[k].blocks, i.init[k].blocks)
         [] OTHER -> o = i
BlockSubseq(out, in) ==
    IF out = <<>> THEN TRUE
    ELSE IF in = <<>> THEN FALSE
    ELSE \/ StmtMatches(Head(out), Head(in)) /\ BlockSubseq(Tail(out), Tail(in))
         \/ BlockSubseq(out, Tail(in))

(***************************************************************************)
(* The claims about the Stripping Visitor, checked under SpecVisit.        *)
(***************************************************************************)
\* C1 (Mode elimination): after the visitor has run, no function or method
\* whose Mode in the input is Specification, SpecificationChecked, Proof or
\* ProofAxiom is left in the file, whatever its container (free function,
\* trait method, impl method).
C1_ModeElimination ==
    phase = "visited" =>
        \A e \in FnTable(input) :
            ~ExecutableMode(e[3].mode) => ~\E o \in FnTable(file) : SameFn(o, e)

\* C2 (No corruption): after the visitor has run on a well-formed file, every
\* retained call of a retained function passes as many arguments as the function
\* has parameters left, and no retained struct literal names a removed field.
C2_NoCorruption ==
    (phase = "visited" /\ UseSitesAgree(input)) => UseSitesAgree(file)

\* C6 (Contract clearing): every function or method whose Mode is Executable in
\* the input is retained; in the output it has no contract clause, its Mode is
\* Executable and its body is the input body's executable statements, unchanged.
C6_ContractClearing ==
    phase = "visited" =>
        \A e \in FnTable(input) :
            ExecutableMode(e[3].mode) =>
                \E o \in FnTable(file) :
                    /\ SameFn(o, e)
                    /\ o[3].spec = EmptySpec
                    /\ ExecutableMode(o[3].mode)
                    /\ BodyOf(o[3]) = ExecutableBlock(BodyOf(e[3]))

\* C7 (Arity reduction): every function or method retained in the output (free,
\* impl, trait) has exactly the input parameters that are neither Ghost nor
\* Tracked, so its length is the input length minus the ghost/tracked count.
C7_ArityReduction ==
    phase = "visited" =>
        \A o \in FnTable(file) :
            \E e \in FnTable(input) :
                /\ SameFn(o, e)
                /\ o[3].inputs = ExecutableArgs(e[3].inputs)
                /\ Len(o[3].inputs) =
                     Len(e[3].inputs)
                     - Len(SelectSeq(e[3].inputs, LAMBDA a : Qualifier(a) # "Executable"))

\* C8 (Field reduction): every struct, and every variant of every enum, is
\* retained with exactly its input fields that are neither Ghost nor Tracked;
\* the length is the input length minus the ghost/tracked count, and a struct
\* whose fields are all ghost is retained with an empty field list.
FieldsReduced(out, in) ==
    /\ out.style = in.style
    /\ out.list = ExecutableFields(in.list)
    /\ Len(out.list) = Len(in.list) - Len(GhostFields(in.list))
C8_FieldReduction ==
    phase = "visited" =>
        \A k \in 1..Len(input) :
            /\ input[k].item = "Struct" =>
                  \E j \in 1..Len(file) :
                      /\ file[j].item = "Struct" /\ file[j].name = input[k].name
                      /\ FieldsReduced(file[j].fields, input[k].fields)
            /\ input[k].item = "Enum" =>
                  \E j \in 1..Len(file) :
                      /\ file[j].item = "Enum" /\ file[j].name = input[k].name
                      /\ Names(file[j].variants) = Names(input[k].variants)
                      /\ \A v \in 1..Len(input[k].variants) :
                            FieldsReduced(file[j].variants[v].fields, input[k].variants[v].fields)

\* an enum with a variant whose fields are all ghost or tracked (left empty) and
\* a variant that keeps one field out of two has been visited
C8_Witness ==
    /\ phase = "visited"
    /\ \E k \in 1..Len(input) :
          /\ input[k].item = "Enum" /\ file[k].item = "Enum"
          /\ \E v, w \in 1..Len(input[k].variants) :
                /\ Len(input[k].variants[v].fields.list) = 2
                /\ file[k].variants[v].fields.list = <<>>
                /\ Len(input[k].variants[w].fields.list) = 2
                /\ Len(file[k].variants[w].fields.list) = 1

\* C9 (Order stability): the items, members, parameters, fields and statements
\* the visitor retains are in the order of the input: each output sequence is a
\* subsequence of the input sequence.
MembersInOrder(out, in) ==
    /\ IsSubseq(Names(out.items), Names(in.items))
    /\ \A a \in 1..Len(out.items) : \A b \in 1..Len(in.items) :
          out.items[a].name = in.items[b].name =>
              /\ IsSubseq(Names(out.items[a].inputs), Names(in.items[b].inputs))
              /\ BlockSubseq(BodyOf(out.items[a]), BodyOf(in.items[b]))
VariantsInOrder(out, in) ==
    /\ IsSubseq(Names(out.variants), Names(in.variants))
    /\ \A a \in 1..Len(out.variants) : \A b \in 1..Len(in.variants) :
          out.variants[a].name = in.variants[b].name =>
              IsSubseq(out.variants[a].fields.list, in.variants[b].fields.list)
ItemInOrder(out, in) ==
    CASE out.item = "Fn" ->
            /\ IsSubseq(out.inputs, in.inputs)
            /\ BlockSubseq(BodyOf(out), BodyOf(in))
      [] out.item = "Struct" -> IsSubseq(out.fields.list, in.fields.list)
      [] out.item = "Enum" -> VariantsInOrder(out, in)
      [] out.item \in {"Trait", "Impl"} -> MembersInOrder(out, in)
      [] OTHER -> out = in
C9_OrderStability ==
    phase = "visited" =>
        /\ IsSubseq(Names(file), Names(input))
        /\ \A a \in 1..Len(file) : \A b \in 1..Len(input) :
              (file[a].item = input[b].item /\ file[a].name = input[b].name) =>
                  ItemInOrder(file[a], input[b])

\* a file of three items has lost its middle item and kept the two around it
C9_Witness ==
    /\ phase = "visited"
    /\ Len(input) = 3
    /\ Len(file) = 2
    /\ file[1].name = input[1].name
    /\ file[2].name = input[3].name

(***************************************************************************)
(* The lexical structure the claims about find_matching_brace refer to: a  *)
(* reference reading of the text after the opening brace.  A string        *)
(* literal runs from a quote to the next unescaped quote; a character      *)
(* literal is quote, one character or a backslash and one character,       *)
(* quote; any other quote followed by a letter or underscore is a lifetime *)
(* or label; a line comment runs to the end of the line and a block        *)
(* comment to the next star-slash.  Lex(src, i, depth, acc) reads from     *)
(* offset i in normal mode and returns                                     *)
(*   match      the offset of the brace that closes the block, or None     *)
(*   wf         FALSE when a literal or block comment is not terminated,   *)
(*              or a quote or backslash is no token                        *)
(*   chars      the <<opening, closing>> quote offsets of the character    *)
(*              literals read                                              *)
(*   lifetimes  the quote offsets of the lifetimes read                    *)
(***************************************************************************)
IdentStart(ch) == ch \in Letters \/ ch = "_"

\* the offset of the quote closing the string whose content starts at i, or None
RECURSIVE StringEnd(_, _)
StringEnd(src, i) ==
    IF i >= Len(src) THEN None
    ELSE IF Byte(src, i) = "\\" THEN StringEnd(src, i + 2)
    ELSE IF Byte(src, i) = "\"" THEN i
    ELSE StringEnd(src, i + 1)

\* the offset after the line comment whose content starts at i
RECURSIVE LineEnd(_, _)
LineEnd(src, i) ==
    IF i >= Len(src) THEN i
    ELSE IF Byte(src, i) = "\n" THEN i + 1
    ELSE LineEnd(src, i + 1)

\* the offset after the block comment whose content starts at i, or None
RECURSIVE BlockEnd(_, _)
BlockEnd(src, i) ==
    IF i + 1 >= Len(src) THEN None
    ELSE IF Byte(src, i) = "*" /\ Byte(src, i + 1) = "/" THEN i + 2
    ELSE BlockEnd(src, i + 1)

\* the offset of the closing quote of the character literal opening at i, or None
CharEnd(src, i) ==
    IF i + 3 < Len(src) /\ Byte(src, i + 1) = "\\" /\ Byte(src, i + 3) = "'" THEN i + 3
    ELSE IF i + 2 < Len(src) /\ Byte(src, i + 1) \notin {"\\", "'"} /\ Byte(src, i + 2) = "'"
        THEN i + 2
    ELSE None

RECURSIVE Lex(_, _, _, _)
Lex(src, i, depth, acc) ==
    IF i >= Len(src) THEN acc
    ELSE LET ch == Byte(src, i)
             two == IF i + 1 < Len(src) THEN <<ch, Byte(src, i + 1)>> ELSE <<ch>>
         IN  CASE ch = "\"" ->
                    IF StringEnd(src, i + 1) = None THEN [acc EXCEPT !.wf = FALSE]
                    ELSE Lex(src, StringEnd(src, i + 1) + 1, depth, acc)
               [] ch = "'" ->
                    IF CharEnd(src, i) # None
                    THEN Lex(src, CharEnd(src, i) + 1, depth,
                             [acc EXCEPT !.chars = @ \cup {<<i, CharEnd(src, i)>>}])
                    ELSE IF i + 1 < Len(src) /\ IdentStart(Byte(src, i + 1))
                    THEN Lex(src, i + 1, depth, [acc EXCEPT !.lifetimes = @ \cup {i}])
                    ELSE [acc EXCEPT !.wf = FALSE]
               [] two = <<"/", "/">> -> Lex(src, LineEnd(src, i + 2), depth, acc)
               [] two = <<"/", "*">> ->
                    IF BlockEnd(src, i + 2) = None THEN [acc EXCEPT !.wf = FALSE]
                    ELSE Lex(src, BlockEnd(src, i + 2), depth, acc)
               [] ch = "\\" -> [acc EXCEPT !.wf = FALSE]
               [] ch = "{" -> Lex(src, i + 1, depth + 1, acc)
               [] ch = "}" ->
                    IF depth = 1 THEN [acc EXCEPT !.match = i]
                    ELSE Lex(src, i + 1, depth - 1, acc)
               [] OTHER -> Lex(src, i + 1, depth, acc)

Reference(src, start) ==
    Lex(src, start, 1, [match |-> None, wf |-> TRUE, chars |-> {}, lifetimes |-> {}])

\* what find_matching_brace returned, once it has returned
Returned == IF scan.ret = "some" THEN scan.i ELSE None

(***************************************************************************)
(* The claims about find_matching_brace, checked under SpecScan.           *)
(***************************************************************************)
\* C4 (Depth-matching correctness): on a text whose literals and comments are
\* well formed, find_matching_brace returns the offset of the brace that really
\* closes the block: braces inside string literals, character literals, line
\* comments and block comments do not change the result.
C4_DepthMatching ==
    (~Scanning(source, scan) /\ Reference(source, 1).wf) => Returned = Reference(source, 1).match

\* C5 (Lifetime disambiguation): the scanner is not in character-literal mode
\* after the quote of a lifetime or label; it is in character-literal mode after
\* the opening quote of a complete character literal and out of it after the
\* closing quote.
C5_LifetimeDisambiguation ==
    LET ref == Reference(source, 1)
    IN  ref.wf =>
            /\ \A q \in ref.lifetimes : scan.i = q + 1 => ~scan.in_char
            /\ \A c \in ref.chars :
                  /\ scan.i = c[1] + 1 => scan.in_char
                  /\ scan.i = c[2] + 1 => ~scan.in_char

(***************************************************************************)
(* The claims about the strip entry point, checked under SpecStrip.        *)
(***************************************************************************)
\* C3 (Idempotence): whenever strip succeeds on a text, stripping the text it
\* returned, with the same configuration, returns that same text.
C3_Idempotence ==
    (Len(output) >= 2 /\ output[1].ok) => output[2] = output[1]

\* the functions of a File that have a requires and an ensures clause
HasContract(item) ==
    /\ item.item = "Fn"
    /\ ExecutableMode(item.mode)
    /\ item.spec.requires # NoneOpt
    /\ item.spec.ensures # NoneOpt

\* the documentation comment block of a function with a requires and an ensures
\* clause: a header line, the requires line, the ensures line
ContractBlock(fn) ==
    LET requires_line == "requires " \o Join(fn.spec.requires[1].exprs, ", ")
        ensures_line == "ensures " \o Join(fn.spec.ensures[1].exprs, ", ")
    IN  /\ Len(fn.attrs) = 3
        /\ fn.attrs[2].doc \in {"// " \o requires_line, "/// " \o requires_line}
        /\ fn.attrs[3].doc \in {"// " \o ensures_line, "/// " \o ensures_line}

\* C10 (spec_as_comments through the strip entry point): strip on a text whose
\* functions have a requires and an ensures clause returns, with
\* spec_as_comments = true, each function with the clauses removed and preceded
\* by a comment block listing the requires line and then the ensures line; with
\* spec_as_comments = false it adds no comment block.
C10_SpecAsComments ==
    (Len(output) >= 1 /\ output[1].ok /\ \A k \in 1..Len(input) : HasContract(input[k])) =>
        /\ Len(file) = Len(input)
        /\ \A k \in 1..Len(input) :
              /\ file[k].spec = EmptySpec
              /\ IF config.spec_as_comments
                 THEN LET shown == [file[k] EXCEPT !.spec = input[k].spec]
                      IN  ContractBlock(shown)
                 ELSE file[k].attrs = input[k].attrs

(***************************************************************************)
(* The claims about the rendering of contracts, checked under SpecVisit.   *)
(***************************************************************************)
\* the clause categories that are rendered, in their order, and the line of each
RenderedCategories ==
    <<"requires", "recommends", "ensures", "default_ensures", "returns", "invariants", "unwind">>
Present(spec, cat) ==
    CASE cat = "requires" -> spec.requires # NoneOpt
      [] cat = "recommends" -> spec.recommends # NoneOpt
      [] cat = "ensures" -> spec.ensures # NoneOpt
      [] cat = "default_ensures" -> spec.default_ensures # NoneOpt
      [] cat = "returns" -> spec.returns # NoneOpt
      [] cat = "invariants" -> spec.invariants # NoneOpt
      [] cat = "unwind" -> spec.unwind # NoneOpt
LineOf(spec, cat) ==
    CASE cat = "requires" -> "requires " \o Join(spec.requires[1].exprs, ", ")
      [] cat = "recommends" ->
            "recommends " \o Join(spec.recommends[1].exprs, ", ")
            \o (IF spec.recommends[1].via = NoneOpt THEN ""
                ELSE " via " \o spec.recommends[1].via[1])
      [] cat = "ensures" -> "ensures " \o Join(spec.ensures[1].exprs, ", ")
      [] cat = "default_ensures" ->
            "default_ensures " \o Join(spec.default_ensures[1].exprs, ", ")
      [] cat = "returns" -> "returns " \o Join(spec.returns[1].exprs, ", ")
      [] cat = "invariants" ->
            "opens_invariants "
            \o (LET set == spec.invariants[1].set
                IN  CASE set.kind = "Any" -> "any"
                      [] set.kind = "None" -> "none"
                      [] set.kind = "List" -> "[" \o Join(set.exprs, ", ") \o "]"
                      [] set.kind = "Set" -> set.exprs[1])
      [] cat = "unwind" ->
            "no_unwind" \o (IF spec.unwind[1].when = NoneOpt THEN ""
                            ELSE " when " \o spec.unwind[1].when[1])

\* block is a header line and one line for each present category, in order,
\* every line behind the same comment marker; no present category, no block
IsRenderingOf(block, spec) ==
    LET present == SelectSeq(RenderedCategories, LAMBDA cat : Present(spec, cat))
    IN  IF present = <<>> THEN block = <<>>
        ELSE /\ Len(block) = 1 + Len(present)
             /\ \E marker \in {"//", "///"} :
                   /\ block[1].doc = marker \o " ## Verus Annotations"
                   /\ \A k \in 1..Len(present) :
                         block[k + 1].doc = marker \o " " \o LineOf(spec, present[k])

\* C11 (Contract-to-comment rendering): with rendering enabled, every function
\* retained in the output carries, after the attributes it had, a block that is
\* one header line and exactly one line per present clause among requires,
\* recommends, ensures, default_ensures, returns, invariants, unwind, in that
\* order; decreases gives no line, and a function with no clause, or only a
\* decreases clause, gets no block and no header.
C11_Rendering ==
    (phase = "visited" /\ config.spec_as_comments) =>
        \A o \in FnTable(file) :
            \E e \in FnTable(input) :
                /\ SameFn(o, e)
                /\ Len(o[3].attrs) >= Len(e[3].attrs)
                /\ SubSeq(o[3].attrs, 1, Len(e[3].attrs)) = e[3].attrs
                /\ IsRenderingOf(SubSeq(o[3].attrs, Len(e[3].attrs) + 1, Len(o[3].attrs)),
                                 e[3].spec)

(***************************************************************************)
(* The claims about the orchestrator, checked under SpecProcess.           *)
(***************************************************************************)
\* the files the walk selects: the entries the walker yields with extension rs
Selected == SelectSeq(run.listing, LAMBDA e : e.ok /\ extension(e.path) = "rs")
Attempts(path) == {i \in 1..Len(run.attempted) : run.attempted[i].path = path}
Failed == {i \in 1..Len(run.attempted) : ~run.attempted[i].result.ok}
\* process went through process_directory and has returned
WalkOver == is_dir(disk, run.input) /\ config.recursive /\ run.result # NoneOpt

\* C12 (Directory partial failure): when the walk of a directory in recursive
\* mode is over, every selected file (extension rs) has been attempted exactly
\* once, also those listed after a file that failed; process returns an error
\* if and only if at least one file failed, and the exit code of the command is
\* non-zero in that case and 0 otherwise.
C12_PartialFailure ==
    WalkOver =>
        /\ \A k \in 1..Len(Selected) : Cardinality(Attempts(Selected[k].path)) = 1
        /\ Len(run.attempted) = Len(Selected)
        /\ ~run.result[1].ok <=> Failed # {}
        /\ run.exit_code # NoneOpt => (run.exit_code[1] # 0 <=> Failed # {})
        /\ run.exit_code # NoneOpt => (run.exit_code[1] = 0 <=> Failed = {})

\* the command has walked a directory whose first file failed and whose second
\* file was stripped, and has exited
C12_Witness ==
    /\ WalkOver
    /\ phase = "exited"
    /\ Len(run.attempted) = 2
    /\ ~run.attempted[1].result.ok
    /\ run.attempted[2].result.ok
    /\ run.exit_code = Some(1)

\* the stripped texts printed on standard output
TextLines(out) == SelectSeq(out, LAMBDA l : l.line = "text")

\* the sink the claim names for the configuration
Sink ==
    IF config.check THEN "none"
    ELSE IF config.in_place THEN "input"
    ELSE IF config.output # NoneOpt THEN "output"
    ELSE "stdout"

\* the step delivers text, stripped from the file at path, to the sink and
\* changes no other file
Routed(path, text) ==
    /\ TextLines(stdout') = IF Sink = "stdout"
                            THEN Append(TextLines(stdout), [line |-> "text", text |-> text])
                            ELSE TextLines(stdout)
    /\ disk' = IF Sink = "input" THEN [disk EXCEPT ![path] = Some(text)]
               ELSE IF Sink = "output" THEN [disk EXCEPT ![config.output[1]] = Some(text)]
               ELSE disk

\* the file the configuration routes the text of path to, if it routes to a file
Target(path) ==
    IF Sink = "input" THEN Some(path)
    ELSE IF Sink = "output" THEN config.output
    ELSE NoneOpt

\* a configuration error.
C14_InvalidFlagCombination ==
    (config.in_place /\ config.output # NoneOpt /\ phase # "main" /\ exists(disk, run.input)) =>
        /\ run.attempted = <<>>
        /\ run.result # NoneOpt => run.result = Some(Err("ConfigError"))

\* C16 (Unmatched wrapper): a file whose text has a wrapper that is never
\* closed fails with a structural error, a kind of its own.
C16_UnmatchedWrapper ==
    \A i \in 1..Len(run.attempted) :
        LET a == run.attempted[i]
        IN  (is_file(disk, a.path) /\ ~unwrap_verus_macros(a.strip.source).ok) =>
                /\ ~a.result.ok
                /\ a.result.err = "StructuralError"
                /\ a.result.err \notin {"ConfigError", "ParseError", "WriteError"}

\* the warning lines printed for a path
Warnings(path) == SelectSeq(stderr, LAMBDA l : l.line = "warning" /\ l.path = path)

\* C17 (Empty output): when stripping a file leaves no item, strip_file returns
\* success with the empty text, and the warning for the file is printed if and
\* only if keep_empty is false.
C17_EmptyOutput ==
    \A i \in 1..Len(run.attempted) :
        LET a == run.attempted[i]
            preprocessed == unwrap_verus_macros(a.strip.source)
            parsed == parse_file(preprocessed.val)
            stripped == visit_file_mut(parsed.val, VisitorConfig(config))
        IN  (is_file(disk, a.path) /\ preprocessed.ok /\ parsed.ok /\ stripped = <<>>) =>
                /\ a.strip.result = Ok(<<>>)
                /\ Len(Warnings(a.path)) = (IF config.keep_empty THEN 0 ELSE 1)

\* a file that held only specification code was stripped with keep_empty false
\* and the warning was printed
C17_Witness ==
    /\ ~config.keep_empty
    /\ Len(run.attempted) = 1
    /\ run.attempted[1].strip.source = SpecOnlyText
    /\ run.attempted[1].strip.result = Ok(<<>>)
    /\ Len(Warnings(run.attempted[1].path)) = 1

(***************************************************************************)
(* The claim about the splice of unwrap_verus_macros, checked under        *)
(* SpecStrip.  Splice is the text the claim describes: an invocation is    *)
(* the marker, optional whitespace and a brace block closed where the      *)
(* reference lexer closes it.                                              *)
(***************************************************************************)
RECURSIVE Splice(_, _, _)
Splice(src, k, acc) ==
    IF k >= Len(src) THEN acc
    ELSE LET w == SkipWhitespace(src, k + Len(Marker))
             invoked == /\ starts_with(src, k, Marker)
                        /\ w < Len(src)
                        /\ Byte(src, w) = "{"
                        /\ Reference(src, w + 1).match # None
             close == Reference(src, w + 1).match
         IN  IF invoked
             THEN Splice(src, close + 1, acc \o Slice(src, w + 1, close) \o <<"\n">>)
             ELSE Splice(src, k + 1, Append(acc, Byte(src, k)))

ContainsMarker(text) == \E k \in 0..Len(text) : starts_with(text, k, Marker)

\* C15 (Wrapper splice): for a text made of plain text and wrapper invocations
\* (the splice leaves no marker), unwrap_verus_macros returns the text with
\* each invocation replaced by its inner text and one newline, everything
\* outside the invocations copied unchanged and in order.
C15_WrapperSplice ==
    (output # <<>> /\ ~ContainsMarker(Splice(source, 0, <<>>))) =>
        /\ unwrap_verus_macros(source).ok
        /\ unwrap_verus_macros(source).val = Splice(source, 0, <<>>)
        /\ ~ContainsMarker(unwrap_verus_macros(source).val)

(***************************************************************************)
(* The claims about the statements of blocks, checked under SpecVisit.     *)
(* The visited blocks are the blocks, at every depth, of the bodies of the *)
(* functions whose Mode is Executable.                                     *)
(***************************************************************************)
RECURSIVE AllBlocks(_)
AllBlocks(block) ==
    {block}
    \cup UNION {UNION {AllBlocks(e.blocks[j]) : j \in 1..Len(e.blocks)} :
                e \in UNION {{ExprOf(block[k])[j] : j \in 1..Len(ExprOf(block[k]))} :
                             k \in 1..Len(block)}}

\* the pairs <<body in the output, body in the input>> of the visited functions
VisitedBodies ==
    {<<BodyOf(o[3]), BodyOf(e[3])>> :
        <<o, e>> \in {p \in FnTable(file) \X FnTable(input) :
                        SameFn(p[1], p[2]) /\ ExecutableMode(p[2][3].mode)}}

\* the expression statements of a block, each without its nested blocks
ExprHeads(block) ==
    LET es == SelectSeq(block, LAMBDA st : st.stmt = "Expr")
    IN  [k \in 1..Len(es) |-> [es[k].expr EXCEPT !.blocks = <<>>]]
KeptExprs(block) ==
    ExprHeads(SelectSeq(block, LAMBDA st : st.stmt = "Expr" /\ ~GhostExpr(st.expr)))

\* C18 (Expression-statement rule): in every visited block the expression
\* statements left are, in order, exactly those of the block whose expression
\* is none of GhostUnary{Proof, Forall, Exists, Choose}, View, BigAnd, BigOr,
\* GhostBinary{Imply, Exply, Equiv}, Assert, Assume, AssertForall; a statement
\* wrapping a macro call of any name is left.
C18_ExprStmtRule ==
    phase = "visited" =>
        \A p \in VisitedBodies :
            /\ ExprHeads(p[1]) = KeptExprs(p[2])
            /\ \A b \in AllBlocks(p[2]) : ExprHeads(visit_block_mut(b)) = KeptExprs(b)

MacroStmts(block) == SelectSeq(block, LAMBDA st : st.stmt = "Macro")
KeptMacros(block) ==
    SelectSeq(block, LAMBDA st : st.stmt = "Macro" /\ st.name \notin RemovalSet)

\* C19 (Macro-statement rule): in every visited block the macro statements left
\* are, in order and unchanged, exactly those of the block whose name is not
\* one of proof, calc, assert_forall_by, assert_by, open_invariant,
\* open_local_invariant; println and the runtime assert are left.
C19_MacroStmtRule ==
    phase = "visited" =>
        \A p \in VisitedBodies :
            /\ MacroStmts(p[1]) = KeptMacros(p[2])
            /\ \A b \in AllBlocks(p[1]) : \A k \in 1..Len(b) :
                  b[k].stmt = "Macro" => b[k].name \notin RemovalSet
            /\ \A b \in AllBlocks(p[2]) : MacroStmts(visit_block_mut(b)) = KeptMacros(b)

\* a body made of a proof macro and a println has been visited: println is
\* left alone; and a body made of the runtime assert is left as it was
C19_Witness ==
    /\ phase = "visited"
    /\ \E p \in VisitedBodies :
          /\ p[2] = <<MacroStmt("proof"), MacroStmt("println")>>
          /\ p[1] = <<MacroStmt("println")>>

\* C20 (Transitive application): after stripping, no block at any depth of a
\* retained function body holds a Ghost or Tracked binding, a droppable
\* expression statement or a macro statement of the removal set, and every
\* other statement of those blocks is retained as it stands.
C20_TransitiveApplication ==
    phase = "visited" =>
        \A o \in FnTable(file) :
            /\ \A st \in StmtsDeep(BodyOf(o[3])) : ~GhostStmt(st)
            /\ \E e \in FnTable(input) :
                  SameFn(o, e) /\ BodyOf(o[3]) = ExecutableBlock(BodyOf(e[3]))

(***************************************************************************)
(* The claim about the file-level pass, checked under SpecVisit.           *)
(***************************************************************************)
NonExecutableFn(item) == item.item = "Fn" /\ ~ExecutableMode(item.mode)
ItemKeys(f) == [k \in 1..Len(f) |-> <<f[k].item, f[k].name>>]

\* C21 (File-level pass): after visit_file_mut no top-level function of the
\* file has a non-executable Mode, the top-level items that are not
\* non-executable functions are all still there, in their order, and a file
\* that held only specification functions ends with an empty item list.
C21_FileLevelPass ==
    phase = "visited" =>
        /\ \A k \in 1..Len(file) : ~NonExecutableFn(file[k])
        /\ ItemKeys(file) = ItemKeys(SelectSeq(input, LAMBDA it : ~NonExecutableFn(it)))
        /\ (\A k \in 1..Len(input) : NonExecutableFn(input[k])) => file = <<>>

\* a file of a spec function and a proof function has been visited and is empty
C21_Witness ==
    /\ phase = "visited"
    /\ Len(input) = 2
    /\ input[1].item = "Fn" /\ input[1].mode = "Spec"
    /\ input[2].item = "Fn" /\ input[2].mode = "Proof"
    /\ file = <<>>

(***************************************************************************)
(* The claims about the marker outside invocations, checked under          *)
(* SpecStrip.  CodeOffsets is the set of offsets of a text that are        *)
(* neither in a string or character literal nor in a comment.              *)
(***************************************************************************)
RECURSIVE CodeOffsets(_, _, _)
CodeOffsets(src, i, acc) ==
    IF i >= Len(src) THEN acc
    ELSE LET ch == Byte(src, i)
             two == IF i + 1 < Len(src) THEN <<ch, Byte(src, i + 1)>> ELSE <<ch>>
         IN  CASE ch = "\"" ->
                    IF StringEnd(src, i + 1) = None THEN acc
                    ELSE CodeOffsets(src, StringEnd(src, i + 1) + 1, acc)
               [] ch = "'" /\ CharEnd(src, i) # None -> CodeOffsets(src, CharEnd(src, i) + 1, acc)
               [] two = <<"/", "/">> -> CodeOffsets(src, LineEnd(src, i + 2), acc)
               [] two = <<"/", "*">> ->
                    IF BlockEnd(src, i + 2) = None THEN acc
                    ELSE CodeOffsets(src, BlockEnd(src, i + 2), acc)
               [] OTHER -> CodeOffsets(src, i + 1, acc \cup {i})

\* the marker starts at offset k as a token of the code
TopLevelMarker(src, k) ==
    /\ starts_with(src, k, Marker)
    /\ k \in CodeOffsets(src, 0, {})
    /\ k > 0 => ~(IdentStart(Byte(src, k - 1)) \/ Byte(src, k - 1) \in Digits)

\* C22 (Top-level invocations only): a text in which the marker occurs, but
\* only inside comments, inside string literals or as the tail of a longer
\* identifier, has nothing to unwrap: unwrap_verus_macros returns it unchanged.
C22_TopLevelOnly ==
    (/\ output # <<>>
     /\ ContainsMarker(source)
     /\ \A k \in 0..Len(source) : ~TopLevelMarker(source, k)) =>
        unwrap_verus_macros(source) = Ok(source)

(***************************************************************************)
(* More claims about the orchestrator, checked under SpecProcess.          *)
(***************************************************************************)
\* the text stripped from the file of attempt a is where the sink setting puts it
Held(a) ==
    CASE Sink = "input" -> disk[a.path] = Some(a.strip.result.val)
      [] Sink = "output" -> disk[config.output[1]] = Some(a.strip.result.val)
      [] Sink = "stdout" -> \E k \in 1..Len(stdout) :
                                stdout[k] = [line |-> "text", text |-> a.strip.result.val]
      [] OTHER -> TRUE

\* C23 (Per-file independence): when the walk of a directory is over, with
\* every sink setting the text stripped from each file is still held by its
\* sink: no file's output was overwritten or lost because another file was
\* processed.
C23_PerFileIndependence ==
    WalkOver =>
        \A i \in 1..Len(run.attempted) :
            run.attempted[i].result.ok => Held(run.attempted[i])

\* C24 (State unchanged on file failure): a step in which process_file fails on
\* a file with an unwrapping or parse error writes to no sink: every file,
\* among them the input file, the output file and the files already processed,
\* is as it was, and nothing is printed on standard output.
C24_NoWriteOnFailure ==
    [][ Len(run'.attempted) > Len(run.attempted) =>
            LET a == run'.attempted[Len(run'.attempted)]
            IN  (~a.strip.result.ok /\ is_file(disk, a.path)) =>
                    /\ ~a.result.ok
                    /\ disk' = disk
                    /\ stdout' = stdout ]_vars

\* in in_place mode a first file was stripped in place, then a second file
\* failed: the first holds its stripped text and the second its original text
C24_Witness ==
    /\ WalkOver
    /\ config.in_place /\ ~config.check
    /\ Len(run.attempted) = 2
    /\ run.attempted[1].result.ok
    /\ run.attempted[1].strip.source = ExecText
    /\ disk[run.attempted[1].path] = Some(run.attempted[1].strip.result.val)
    /\ ~run.attempted[2].result.ok
    /\ run.attempted[2].strip.source = BadText
    /\ disk[run.attempted[2].path] = Some(BadText)

\* C25 (Directory without recursion): process on a directory with recursive
\* false returns a configuration error and reads and writes no file; with
\* recursive true on a directory without a selected file it succeeds.
C25_DirectoryWithoutRecursion ==
    [][ /\ (phase = "process" /\ is_dir(disk, run.input) /\ ~config.recursive) =>
              /\ run'.result = Some(Err("ConfigError"))
              /\ run'.attempted = <<>>
              /\ disk' = disk
              /\ stdout' = stdout
        /\ (phase = "walk" /\ phase' = "done" /\ config.recursive /\ Selected = <<>>) =>
              /\ run'.result = Some(Ok(<<>>))
              /\ run'.attempted = <<>> ]_vars

\* process has walked a directory of two entries, neither of them a selected
\* file, and has succeeded
C25_Witness ==
    /\ WalkOver
    /\ Len(run.listing) = 3
    /\ Selected = <<>>
    /\ run.attempted = <<>>
    /\ run.result = Some(Ok(<<>>))

\* C26 (keep_empty controls the empty file): when stripping leaves no item of a
\* file and keep_empty is false, no file is created or overwritten with the
\* empty text: the input file keeps its text and the output file is not made.
C26_KeepEmpty ==
    ~config.keep_empty =>
        \A i \in 1..Len(run.attempted) :
            LET a == run.attempted[i]
            IN  (a.strip.result = Ok(<<>>) /\ a.strip.source # <<>>) =>
                    /\ disk[a.path] = Some(a.strip.source)
                    /\ config.output # NoneOpt => disk[config.output[1]] # Some(<<>>)

\* C30 (Complete walk): process on a directory in recursive mode returns
\* success only if the walker could read every entry and every selected file
\* was stripped successfully.
C30_CompleteWalk ==
    (WalkOver /\ run.result[1].ok) =>
        /\ \A k \in 1..Len(run.listing) : run.listing[k].ok
        /\ Failed = {}

\* the marker at offset k is followed, after optional whitespace, by a brace
FollowedByBrace(src, k) ==
    LET w == SkipWhitespace(src, k + Len(Marker))
    IN  w < Len(src) /\ Byte(src, w) = "{"

\* C28 (Marker without a block): a text in which the marker occurs and no
\* occurrence of it is followed, after optional whitespace, by an opening brace
\* is returned by unwrap_verus_macros identical to itself: the marker, the
\* whitespace after it and the character after that all appear in the output.
C28_MarkerWithoutBlock ==
    (/\ output # <<>>
     /\ ContainsMarker(source)
     /\ \A k \in 0..Len(source) : starts_with(source, k, Marker) => ~FollowedByBrace(source, k)) =>
        unwrap_verus_macros(source) = Ok(source)

(***************************************************************************)
(* The claim about the modes of find_matching_brace, checked under         *)
(* SpecScan.                                                               *)
(***************************************************************************)
ActiveModes(st) ==
    {m \in {"in_string", "in_char", "in_comment", "in_block_comment"} :
        \/ m = "in_string" /\ st.in_string
        \/ m = "in_char" /\ st.in_char
        \/ m = "in_comment" /\ st.in_comment
        \/ m = "in_block_comment" /\ st.in_block_comment}
ModesFine(st) ==
    /\ Cardinality(ActiveModes(st)) <= 1
    /\ st.ret = "none" => st.depth >= 1

\* C27 (Scanner state invariant): before and after every step of
\* find_matching_brace at most one of the modes in-string, in-char-literal,
\* in-line-comment, in-block-comment is active and depth is at least 1 while
\* the scan runs; a step taken inside a comment leaves the string and char
\* modes as they are; and a match is reported only by a step that reads a
\* closing brace in normal mode with depth 1, at the offset of that brace.
C27_ScannerState ==
    [][ /\ ModesFine(scan)
        /\ ModesFine(scan')
        /\ (scan.in_comment \/ scan.in_block_comment) =>
              /\ scan'.in_string = scan.in_string
              /\ scan'.in_char = scan.in_char
              /\ scan'.depth = scan.depth
        /\ scan'.ret = "some" =>
              /\ Byte(source, scan.i) = "}"
              /\ ActiveModes(scan) = {}
              /\ ~scan.escape_next
              /\ scan.depth = 1
              /\ scan'.depth = 0
              /\ scan'.i = scan.i ]_vars

\* the scanner has read a quote or an apostrophe inside a line comment and is
\* still in the comment, in no other mode
C27_Witness ==
    /\ Scanning(source, scan)
    /\ scan.i >= 4
    /\ Slice(source, 1, 3) = <<"/", "/">>
    /\ Byte(source, scan.i - 1) \in {"\"", "'"}
    /\ ActiveModes(scan) = {"in_comment"}

(***************************************************************************)
(* The claim about loops, checked under SpecVisit.                         *)
(***************************************************************************)
\* the loops, at every depth, of a body
Loops(body) ==
    {e \in UNION {{ExprOf(st)[j] : j \in 1..Len(ExprOf(st))} : st \in StmtsDeep(body)} :
        e.expr = "While"}

\* C29 (Loop annotations): after stripping, no loop at any depth of a retained
\* function body carries a loop invariant or a loop decreases clause.
C29_LoopAnnotations ==
    phase = "visited" =>
        \A o \in FnTable(file) :
            \A e \in Loops(BodyOf(o[3])) : e.invariant = NoneOpt /\ e.decreases = NoneOpt

=============================================================================
